---------------------------- MODULE Spec2Model ----------------------------
(***************************************************************************)
(* A model of yolo-vision v2: the canvas Renderer (src/renderer.js), the   *)
(* Detector wrapper (src/detector.js) and the App controller (src/app.js). *)
(*                                                                         *)
(* Numbers.  Opacities and the smoothing strength are carried as integers: *)
(* fillOpacity in tenths (0.5 is 5), smoothing as the integer the slider   *)
(* yields.  Float32 history cells are exact rationals <<n, d>> in lowest   *)
(* terms: the rounding of a Float32 store is left out, which changes no    *)
(* thresholded mask for the smoothing values and frame counts used here.   *)
(* The pixel blend and the mask coordinate are computed as the doubles     *)
(* they are, rounding included.                                            *)
(* Colours are the six hex digits of '#rrggbb' as a tuple of nibbles;      *)
(* pixels are <<r, g, b, a>> bytes.                                        *)
(***************************************************************************)
EXTENDS Integers, Sequences, FiniteSets, TLC

VARIABLES
    settings,      \* Renderer.settings
    presets,       \* Renderer.presets
    prevMask,      \* Renderer.prevMask: [isNull, data]
    canvas,        \* the main canvas: [width, height, px, over]
    video,         \* the <video> element:
                   \* [srcObject, live, videoWidth, videoHeight]
    detector,      \* the Detector: [cocoModel, bodyPixModel, isReady,
                   \* confidence, personOnly, mode]
    load,          \* position of App.init in Detector.load
    isRunning,     \* App.isRunning
    detections,    \* App.detections
    segmentation,  \* App.segmentation
    chains,        \* the async activities started by toggleCamera, by slot
    trace          \* history: what the last operation was, read and returned

vars == <<settings, presets, prevMask, canvas, video, detector, load,
          isRunning, detections, segmentation, chains, trace>>

-----------------------------------------------------------------------------
(* Bounds of the model *)

\* slots for concurrently pending startCamera calls and loop chains
MaxChains == 2

\* render calls per behaviour of the mask-history specification
MaxFrames == 3

\* render calls per behaviour of the compositing specification
MaxComposites == 1

\* detect calls made in a behaviour of Spec
MaxDetects == 2

\* frames of one constant mask stream
MaxStream == 7

\* iterations of the mean filter
MaxBlur == 3

\* the largest canvas and mask side of the coordinate mapping
MaxSide == 4

-----------------------------------------------------------------------------
(* Arithmetic helpers *)

Abs(x) == IF x < 0 THEN -x ELSE x

Min(a, b) == IF a <= b THEN a ELSE b

Max(a, b) == IF a >= b THEN a ELSE b

RECURSIVE GCD(_, _)
GCD(a, b) == IF b = 0 THEN a ELSE GCD(b, a % b)

\* floor of n/d for d > 0 (Math.floor)
FloorDiv(n, d) == IF n >= 0 THEN n \div d ELSE -((-n + d - 1) \div d)

\* the rational n/d, d # 0, in lowest terms with a positive denominator
Rat(n, d) ==
    LET s == IF d < 0 THEN -1 ELSE 1
        g == GCD(Abs(n), Abs(d))
    IN  <<(s * n) \div g, (s * d) \div g>>

RatAdd(p, q) ==
    LET g == GCD(p[2], q[2])
    IN  Rat(p[1] * (q[2] \div g) + q[1] * (p[2] \div g), (p[2] \div g) * q[2])

RatMul(p, q) == Rat(p[1] * q[1], p[2] * q[2])

\* p > 1/2
GtHalf(p) == 2 * p[1] > p[2]

-----------------------------------------------------------------------------
(* Double-precision arithmetic.  The pixel loop divides and blends in      *)
(* IEEE doubles; only the low bits of a 53-bit significand decide how a    *)
(* result is rounded, and those are computed here with small integers.     *)

\* 2^k mod m
RECURSIVE Pow2Mod(_, _)
Pow2Mod(k, m) == IF k = 0 THEN 1 % m ELSE (2 * Pow2Mod(k - 1, m)) % m

\* floor(log2(n / d)), for n, d > 0
RECURSIVE FloorLog2(_, _)
FloorLog2(n, d) ==
    IF n < d THEN FloorLog2(2 * n, d) - 1
    ELSE IF n >= 2 * d THEN FloorLog2(n, 2 * d) + 1
    ELSE 0

\* n / d rounded to the nearest integer, a tie to the even one (d > 0)
RoundHalfEven(n, d) ==
    LET f == FloorDiv(n, d)
        r == 2 * (n - f * d)
    IN  IF r > d THEN f + 1
        ELSE IF r < d THEN f
        ELSE IF f % 2 = 0 THEN f ELSE f + 1

\* A double close to p/10 is held as <<p, e>>, standing for
\* p/10 + e/(10 * 2^56).  ToDouble rounds such a number, p > 0, to the
\* nearest double: to a multiple of 2^(E - 52), E its binary exponent, a tie
\* going to the even significand.  With H = 2^(E + 4) the number is
\* (X * H + e)/(10 * H) units of 2^(E - 52), X = p * 2^(52 - E), and X enters
\* only through X mod 20.
ToDoublePositive(p, e) ==
    CHOOSE v \in
        {<<p, k.r * 10 * k.H - k.x20 * k.H>> :
         k \in {[H |-> m.H, x20 |-> m.x20,
                 r |-> RoundHalfEven(m.x20 * m.H + e, 10 * m.H)] :
                m \in {[H   |-> 2^(E + 4),
                        x20 |-> LET n  == (52 - E) % 4
                                    pw == IF n = 0 THEN 16
                                          ELSE IF n = 1 THEN 12
                                          ELSE IF n = 2 THEN 4 ELSE 8
                                IN  ((p % 20) * pw) % 20] :
                       E \in {IF 10 * 2^(E0 + 4) = 16 * p /\ e < 0
                              THEN E0 - 1 ELSE E0 :
                              E0 \in {FloorLog2(p, 10)}}}}} :
        TRUE

\* the nearest double to p/10 + e/(10 * 2^56)
ToDouble(p, e) ==
    CHOOSE r \in
        {IF v[1] = 0 THEN v
         ELSE IF v[1] < 0
         THEN CHOOSE m \in {<<-q[1], -q[2]>> :
                            q \in {ToDoublePositive(-v[1], -v[2])}} : TRUE
         ELSE ToDoublePositive(v[1], v[2]) :
         v \in {<<p, e>>}} :
        TRUE

\* vid * (1 - blend) + fill * blend in doubles, blend the double nearest
\* to b/10
BlendDouble(vid, fill, b) ==
    CHOOSE r \in
        {ToDouble(t[1][1] + t[2][1], t[1][2] + t[2][2]) :
         t \in {<<ToDouble(vid * w[2][1], vid * w[2][2]),
                  ToDouble(fill * w[1][1], fill * w[1][2])>> :
                w \in {<<blend, ToDouble(10 - b, -blend[2])>> :
                       blend \in {ToDouble(b, 0)}}}} :
        TRUE

\* -1, 0 or 1
Sign(n) == IF n > 0 THEN 1 ELSE IF n < 0 THEN -1 ELSE 0

-----------------------------------------------------------------------------
(* Colours: '#rrggbb' as its six hex digits *)

White   == <<15, 15, 15, 15, 15, 15>>
Black   == <<0, 0, 0, 0, 0, 0>>

\* parseInt(hex.slice(1, 3), 16) and its two siblings
hexToRGB(hex) ==
    <<16 * hex[1] + hex[2], 16 * hex[3] + hex[4], 16 * hex[5] + hex[6]>>

\* the store, had it truncated as a Uint8Array-style conversion does
ToUint8ClampTruncating(n, d) ==
    IF n <= 0 THEN 0
    ELSE IF n >= 255 * d THEN 255
    ELSE n \div d

\* storing a number x = n/d (d > 0) into a Uint8ClampedArray cell:
\* clamp to [0, 255], round to nearest, ties to even
ToUint8Clamp(n, d) ==
    IF n <= 0 THEN 0
    ELSE IF n >= 255 * d THEN 255
    ELSE LET f == n \div d
             r == 2 * (n % d)
         IN  IF r > d THEN f + 1
             ELSE IF r < d THEN f
             ELSE IF f % 2 = 0 THEN f ELSE f + 1


-----------------------------------------------------------------------------
(* Renderer: settings and presets *)

Green      == <<0, 0, 15, 15, 0, 0>>
NeonGreen  == <<3, 9, 15, 15, 1, 4>>
Red        == <<15, 15, 0, 0, 0, 0>>
DarkGreen  == <<0, 0, 10, 10, 0, 0>>
Magenta    == <<15, 15, 0, 0, 15, 15>>
Cyan       == <<0, 0, 15, 15, 15, 15>>
Orange     == <<15, 15, 10, 5, 0, 0>>
OrangeRed  == <<15, 15, 4, 5, 0, 0>>
Blue500    == <<3, 11, 8, 2, 15, 6>>
Blue600    == <<2, 5, 6, 3, 14, 11>>

\* the settings the first Renderer variant is constructed with
DefaultSettings ==
    [vizMode |-> "both", colorMode |-> "fixed", fillColor |-> White,
     outlineColor |-> White, bgColor |-> Black, fillOpacity |-> 5,
     outlineThickness |-> 3, showLabels |-> TRUE, segmentationMode |-> TRUE,
     bgReplace |-> FALSE, smoothing |-> 2]

\* the settings the second Renderer variant is constructed with
\* (boxScale in tenths)
DefaultSettings2 ==
    [vizMode |-> "both", colorMode |-> "fixed", fillColor |-> Blue500,
     outlineColor |-> Blue600, fillOpacity |-> 5, outlineThickness |-> 3,
     showLabels |-> TRUE, showBox |-> TRUE, boxScale |-> 10,
     segmentationMode |-> TRUE]

Preset(fc, oc, op, th, vm) ==
    [fillColor |-> fc, outlineColor |-> oc, fillOpacity |-> op,
     outlineThickness |-> th, vizMode |-> vm]

\* the preset table (the same in both variants)
PresetTable ==
    [k \in {"E", "R", "T", "Z", "U", "I", "O"} |->
        CASE k = "E" -> Preset(Green, NeonGreen, 4, 4, "both")
          [] k = "R" -> Preset(Red, Red, 3, 5, "outline")
          [] k = "T" -> Preset(Green, DarkGreen, 6, 2, "both")
          [] k = "Z" -> Preset(Magenta, Cyan, 5, 3, "both")
          [] k = "U" -> Preset(White, White, 2, 2, "outline")
          [] k = "I" -> Preset(Black, White, 8, 2, "both")
          [] k = "O" -> Preset(Orange, OrangeRed, 5, 4, "both")]

\* Object.assign, had the target's own values won over the source's
ObjectAssignTargetWins(target, source) ==
    [f \in (DOMAIN target) \cup (DOMAIN source) |->
        IF f \in DOMAIN target THEN target[f] ELSE source[f]]

\* Object.assign(target, source)
ObjectAssign(target, source) ==
    [f \in (DOMAIN target) \cup (DOMAIN source) |->
        IF f \in DOMAIN source THEN source[f] ELSE target[f]]

\* updateSettings, had it installed the argument as the settings object
updateSettingsReplacing(s, newSettings) == newSettings

\* Renderer.updateSettings: the settings after the call
updateSettings(s, newSettings) == ObjectAssign(s, newSettings)

\* Renderer.applyPreset: the settings after the call and the value returned
\* (NullRet for null)
NullRet == [isNull |-> TRUE]

\* applyPreset, had it installed the preset as the settings object
applyPresetReplacing(s, ps, key) ==
    IF key \in DOMAIN ps
    THEN [settings |-> ps[key], ret |-> ps[key]]
    ELSE [settings |-> s, ret |-> NullRet]

\* names this.presets[key] finds on Object.prototype when the table has no
\* such key of its own: functions and, for '__proto__', the prototype object
\* itself; all truthy and without enumerable own properties
InheritedNames ==
    {"constructor", "toString", "toLocaleString", "valueOf",
     "hasOwnProperty", "isPrototypeOf", "propertyIsEnumerable", "__proto__",
     "__defineGetter__", "__defineSetter__", "__lookupGetter__",
     "__lookupSetter__"}

EmptyObject == [f \in {} |-> 0]

applyPreset(s, ps, key) ==
    IF key \in DOMAIN ps
    THEN [settings |-> ObjectAssign(s, ps[key]), ret |-> ps[key]]
    ELSE IF key \in InheritedNames
    THEN [settings |-> ObjectAssign(s, EmptyObject),
          ret |-> [isNull |-> FALSE, inherited |-> key]]
    ELSE [settings |-> s, ret |-> NullRet]

-----------------------------------------------------------------------------
(* Renderer: mask processing *)

NullMask == [isNull |-> TRUE, data |-> <<>>]

\* new Float32Array(mask)
ToFloats(data) == [i \in 1..Len(data) |-> Rat(data[i], 1)]

\* the blend, had the factor weighed the current cell
BlendedSwapped(prev, cur, smoothing) ==
    RatAdd(RatMul(prev, Rat(10 - smoothing, 10)),
           RatMul(Rat(cur, 1), Rat(smoothing, 10)))

\* the blend of one history cell with one current cell
Blended(prev, cur, smoothing) ==
    RatAdd(RatMul(prev, Rat(smoothing, 10)),
           RatMul(Rat(cur, 1), Rat(10 - smoothing, 10)))

\* smoothMask, had it kept the binarized output as its history
smoothMaskBinarizedHistory(s, pm, currentMask) ==
    IF s.smoothing = 0 \/ pm.isNull \/ Len(pm.data) # Len(currentMask)
    THEN [out |-> currentMask,
          prevMask |-> [isNull |-> FALSE, data |-> ToFloats(currentMask)],
          blended |-> FALSE]
    ELSE CHOOSE r \in
            {[out |-> o, prevMask |-> [isNull |-> FALSE, data |-> ToFloats(o)],
              blended |-> TRUE] :
             o \in {[i \in 1..Len(currentMask) |->
                        IF GtHalf(Blended(pm.data[i], currentMask[i],
                                          s.smoothing))
                        THEN 1 ELSE 0]}} :
            TRUE

\* Renderer.smoothMask: [out |-> the mask returned, prevMask |-> the history,
\* blended |-> whether the blend branch ran]
smoothMask(s, pm, currentMask) ==
    IF s.smoothing = 0 \/ pm.isNull \/ Len(pm.data) # Len(currentMask)
    THEN [out |-> currentMask,
          prevMask |-> [isNull |-> FALSE, data |-> ToFloats(currentMask)],
          blended |-> FALSE]
    ELSE CHOOSE r \in
            {[out |-> [i \in 1..Len(currentMask) |->
                          IF GtHalf(b[i]) THEN 1 ELSE 0],
              prevMask |-> [isNull |-> FALSE, data |-> b],
              blended |-> TRUE] :
             b \in {[i \in 1..Len(currentMask) |->
                        Blended(pm.data[i], currentMask[i], s.smoothing)]}} :
            TRUE

\* the in-bounds cells of the 3x3 kernel around (x, y), as 1-based indices
Kernel(x, y, width, height) ==
    {ny * width + nx + 1 : <<nx, ny>> \in
        {c \in ((x - 1)..(x + 1)) \X ((y - 1)..(y + 1)) :
            c[1] >= 0 /\ c[1] < width /\ c[2] >= 0 /\ c[2] < height}}

RECURSIVE RatSumOver(_, _)
RatSumOver(data, idx) ==
    IF idx = {} THEN Rat(0, 1)
    ELSE LET i == CHOOSE j \in idx : TRUE
         IN  RatAdd(data[i], RatSumOver(data, idx \ {i}))

\* one pass of the filter, had every cell divided by the 9 of a full kernel
BlurPassFullKernel(data, width, height) ==
    [i \in 1..Len(data) |->
        IF i > width * height THEN Rat(0, 1)
        ELSE LET k == Kernel((i - 1) % width, (i - 1) \div width, width, height)
             IN  RatMul(RatSumOver(data, k), Rat(1, 9))]

\* one pass of the 3x3 mean filter
BlurPass(data, width, height) ==
    [i \in 1..Len(data) |->
        IF i > width * height THEN Rat(0, 1)
        ELSE LET k == Kernel((i - 1) % width, (i - 1) \div width, width, height)
             IN  RatMul(RatSumOver(data, k), Rat(1, Cardinality(k)))]

RECURSIVE BlurLoop(_, _, _, _, _)
BlurLoop(data, width, height, iter, iterations) ==
    IF iter < iterations
    THEN BlurLoop(BlurPass(data, width, height), width, height, iter + 1, iterations)
    ELSE data

\* blurMask, had it binarized with >= 0.5
blurMaskAtLeastHalf(maskData, width, height, iterations) ==
    IF iterations = 0 THEN maskData
    ELSE CHOOSE r \in
            {[i \in 1..Len(data) |-> IF ~GtHalf(data[i]) /\ data[i] # Rat(1, 2)
                                      THEN 0 ELSE 1] :
             data \in {BlurLoop(ToFloats(maskData), width, height, 0,
                                iterations)}} :
            TRUE

\* Renderer.blurMask
blurMask(maskData, width, height, iterations) ==
    IF iterations = 0 THEN maskData
    ELSE CHOOSE r \in
            {[i \in 1..Len(data) |-> IF GtHalf(data[i]) THEN 1 ELSE 0] :
             data \in {BlurLoop(ToFloats(maskData), width, height, 0,
                                iterations)}} :
            TRUE

\* the two calls at the head of drawSegmentation, had the call of blurMask
\* left its iteration count to the parameter's default
ProcessMaskDefaultIterations(s, pm, seg) ==
    CHOOSE r \in
        {[out |-> blurMask(sm.out, seg.width, seg.height, 1),
          prevMask |-> sm.prevMask,
          blended |-> sm.blended] :
         sm \in {smoothMask(s, pm, seg.data)}} :
        TRUE

\* the two calls at the head of drawSegmentation
\* [out, prevMask, blended]
ProcessMask(s, pm, seg) ==
    CHOOSE r \in
        {[out |-> blurMask(sm.out, seg.width, seg.height,
                           FloorDiv(s.smoothing, 3)),
          prevMask |-> sm.prevMask,
          blended |-> sm.blended] :
         sm \in {smoothMask(s, pm, seg.data)}} :
        TRUE

-----------------------------------------------------------------------------
(* Renderer: compositing *)

Transparent == <<0, 0, 0, 0>>

NullSeg == [kind |-> "null", width |-> 0, height |-> 0, data |-> <<>>]

\* a canvas whose width or height was just assigned: a cleared bitmap
BlankCanvas(w, h) ==
    [width |-> w, height |-> h, px |-> [i \in 1..(w * h) |-> Transparent],
     over |-> {}]

FillsOn(s) == s.vizMode = "fill" \/ s.vizMode = "both"

OutlinesOn(s) == s.vizMode = "outline" \/ s.vizMode = "both"

\* the mapping, had it rounded to the nearest cell
MaskCoordRounded(x, canvasDim, maskDim) ==
    FloorDiv(2 * x * maskDim + canvasDim, 2 * canvasDim)

\* Math.floor(x / (canvasDim / maskDim)) in doubles.  The result is the
\* exact floor unless x * maskDim / canvasDim is an integer q > 0, the scale
\* canvasDim / maskDim was rounded up (by d/maskDim units of its last place)
\* and the quotient x / scale, short of q by q * d / (canvasDim * 2^(52 - g)),
\* rounds to the double below q, which lies 2^(e - 52) under it.
MaskCoord(x, canvasDim, maskDim) ==
    LET q == FloorDiv(x * maskDim, canvasDim)
    IN  IF (x * maskDim) % canvasDim # 0 \/ q = 0
               \/ canvasDim % maskDim = 0
        THEN q
        ELSE LET g   == FloorLog2(canvasDim, maskDim)
                 rem == (canvasDim * Pow2Mod(52 - g, maskDim)) % maskDim
                 d   == maskDim - rem
                 e0  == FloorLog2(q, 1)
                 e   == IF q = 2^e0 THEN e0 - 1 ELSE e0
             IN  IF 2 * rem <= maskDim THEN q
                 ELSE IF q * d * 2^Max(0, 1 + g - e)
                             > canvasDim * 2^Max(0, e - 1 - g)
                 THEN q - 1
                 ELSE q

\* what offCtx.getImageData returns after the video was drawn at mask size:
\* nothing is drawn from a video without a frame; a frame of the mask's size
\* is copied; a frame of one colour stays that colour at any size (the only
\* frames supplied when the sizes differ)
VideoData(vid, frame, width, height) ==
    IF ~vid.live THEN [i \in 1..(width * height) |-> <<0, 0, 0>>]
    ELSE IF width = vid.videoWidth /\ height = vid.videoHeight THEN frame
    ELSE [i \in 1..(width * height) |-> frame[1]]

\* the pixel loop, had its background branch not stored the alpha byte
CompositePixelBackgroundAlphaUnset(s, isSegmented, v) ==
    LET fillRGB == hexToRGB(s.fillColor)
        bgRGB   == hexToRGB(s.bgColor)
        blend   == s.fillOpacity
        mix(c)  == CHOOSE r \in
                       {ToUint8Clamp(10 * d[1] + Sign(d[2]), 100) :
                        d \in {BlendDouble(v[c], fillRGB[c], blend)}} : TRUE
    IN  IF s.bgReplace
        THEN IF isSegmented
             THEN IF FillsOn(s) THEN <<mix(1), mix(2), mix(3), 255>>
                  ELSE <<v[1], v[2], v[3], 255>>
             ELSE <<bgRGB[1], bgRGB[2], bgRGB[3], 0>>
        ELSE IF isSegmented /\ FillsOn(s)
             THEN <<mix(1), mix(2), mix(3), 255>>
             ELSE <<v[1], v[2], v[3], 255>>

\* the pixel loop, had its background-replace branch blended the fill
\* whatever the vizMode
CompositePixelFillAlways(s, isSegmented, v) ==
    LET fillRGB == hexToRGB(s.fillColor)
        bgRGB   == hexToRGB(s.bgColor)
        blend   == s.fillOpacity
        mix(c)  == CHOOSE r \in
                       {ToUint8Clamp(10 * d[1] + Sign(d[2]), 100) :
                        d \in {BlendDouble(v[c], fillRGB[c], blend)}} : TRUE
    IN  IF s.bgReplace
        THEN IF isSegmented
             THEN <<mix(1), mix(2), mix(3), 255>>
             ELSE <<bgRGB[1], bgRGB[2], bgRGB[3], 255>>
        ELSE IF isSegmented /\ FillsOn(s)
             THEN <<mix(1), mix(2), mix(3), 255>>
             ELSE <<v[1], v[2], v[3], 255>>

\* the four bytes the pixel loop leaves in outputData for one pixel
CompositePixel(s, isSegmented, v) ==
    LET fillRGB == hexToRGB(s.fillColor)
        bgRGB   == hexToRGB(s.bgColor)
        blend   == s.fillOpacity
        mix(c)  == CHOOSE r \in
                       {ToUint8Clamp(10 * d[1] + Sign(d[2]), 100) :
                        d \in {BlendDouble(v[c], fillRGB[c], blend)}} : TRUE
    IN  IF s.bgReplace
        THEN IF isSegmented
             THEN IF FillsOn(s) THEN <<mix(1), mix(2), mix(3), 255>>
                  ELSE <<v[1], v[2], v[3], 255>>
             ELSE <<bgRGB[1], bgRGB[2], bgRGB[3], 255>>
        ELSE IF isSegmented /\ FillsOn(s)
             THEN <<mix(1), mix(2), mix(3), 255>>
             ELSE <<v[1], v[2], v[3], 255>>

\* the mask cell (1-based index) output pixel i (1-based) reads
MaskIdxOf(i, cw, ch, width, height) ==
    MaskCoord((i - 1) \div cw, ch, height) * width
        + MaskCoord((i - 1) % cw, cw, width) + 1

\* outputData after the pixel loop
Composite(s, maskData, videoData, cw, ch, width, height) ==
    [i \in 1..(cw * ch) |->
        LET m == MaskIdxOf(i, cw, ch, width, height)
        IN  CompositePixel(s, maskData[m] = 1, videoData[m])]

\* the edge test, had a neighbour outside the mask counted as background
EdgeCellsBorderAsBackground(maskData, width, height) ==
    {i \in 1..(width * height) :
        /\ maskData[i] = 1
        /\ \/ \E j \in Kernel((i - 1) % width, (i - 1) \div width, width,
                                height) : maskData[j] = 0
           \/ Cardinality(Kernel((i - 1) % width, (i - 1) \div width, width,
                                 height)) < 9}

\* the cells drawOutline paints: a 1 with a 0 among its in-bounds neighbours
EdgeCells(maskData, width, height) ==
    {i \in 1..(width * height) :
        /\ maskData[i] = 1
        /\ \E j \in Kernel((i - 1) % width, (i - 1) \div width, width, height) :
              maskData[j] = 0}

\* whether the rectangle drawOutline fills for cell e covers pixel i
\* (the sizes supplied make every rectangle edge fall on a pixel boundary)
OutlineCovers(e, i, thickness, cw, ch, width, height) ==
    LET x == (e - 1) % width
        y == (e - 1) \div width
        X == (i - 1) % cw
        Y == (i - 1) \div cw
    IN  /\ x * cw <= X * width
        /\ (X + 1) * width <= x * cw + Max(cw, thickness * width)
        /\ y * ch <= Y * height
        /\ (Y + 1) * height <= y * ch + Max(ch, thickness * height)

\* the canvas pixels after drawOutline
drawOutline(s, px, maskData, cw, ch, width, height) ==
    LET c == hexToRGB(s.outlineColor)
        edges == EdgeCells(maskData, width, height)
    IN  [i \in 1..(cw * ch) |->
            IF \E e \in edges :
                  OutlineCovers(e, i, s.outlineThickness, cw, ch, width, height)
            THEN <<c[1], c[2], c[3], 255>>
            ELSE px[i]]

\* Renderer.drawSegmentation on canvas cv:
\* [threw, canvas, prevMask, ran, mask, out, blended]
drawSegmentation(s, pm, cv, vid, frame, seg) ==
    IF seg.kind # "mask"
    THEN [threw |-> FALSE, canvas |-> cv, prevMask |-> pm, ran |-> FALSE,
          mask |-> <<>>, out |-> <<>>, blended |-> FALSE]
    ELSE CHOOSE r \in
            {IF cv.width = 0 \/ cv.height = 0
             THEN \* createImageData(0, 0) throws IndexSizeError
                  [threw |-> TRUE, canvas |-> cv, prevMask |-> p.prevMask,
                   ran |-> FALSE, mask |-> p.out, out |-> <<>>,
                   blended |-> p.blended]
             ELSE CHOOSE q \in
                     {[threw |-> FALSE,
                       canvas |-> [cv EXCEPT
                           !.px = IF OutlinesOn(s)
                                  THEN drawOutline(s, out, p.out, cv.width,
                                           cv.height, seg.width, seg.height)
                                  ELSE out,
                           !.over = {}],
                       prevMask |-> p.prevMask, ran |-> TRUE, mask |-> p.out,
                       out |-> out, blended |-> p.blended] :
                      out \in {Composite(s, p.out,
                                  VideoData(vid, frame, seg.width, seg.height),
                                  cv.width, cv.height, seg.width,
                                  seg.height)}} :
                     TRUE :
             p \in {ProcessMask(s, pm, seg)}} :
            TRUE

\* ctx.drawImage(video, 0, 0) on a canvas of the video's size
drawImage(cv, vid, frame) ==
    IF ~vid.live THEN cv
    ELSE [cv EXCEPT !.px = [i \in 1..Len(frame) |->
                               <<frame[i][1], frame[i][2], frame[i][3], 255>>],
                    !.over = {}]

\* Renderer.drawDetection: the drawing calls made for a detection of class c
drawDetection(s, c) ==
    (IF FillsOn(s) THEN {<<"fill", c>>} ELSE {})
        \cup (IF OutlinesOn(s) THEN {<<"outline", c>>} ELSE {})
        \cup (IF s.showLabels THEN {<<"label", c>>} ELSE {})

\* the loop, had it skipped a person's box whenever segmentation mode is on
DrawBoxesPersonsSkipped(s, dets, seg) ==
    UNION {IF ~s.segmentationMode \/ c # "person"
           THEN drawDetection(s, c)
           ELSE IF s.showLabels THEN {<<"label", c>>} ELSE {} : c \in dets}

\* the loop over the detections at the end of render
DrawBoxes(s, dets, seg) ==
    UNION {IF seg.kind = "null" \/ ~s.segmentationMode \/ c # "person"
           THEN drawDetection(s, c)
           ELSE IF s.showLabels THEN {<<"label", c>>} ELSE {} : c \in dets}

\* render, had it composited every mask whatever segmentationMode says
renderAnyMask(s, pm, cv, vid, frame, dets, seg) ==
    CHOOSE r \in
        {IF d.threw THEN d
         ELSE [d EXCEPT !.canvas.over = @ \cup DrawBoxes(s, dets, seg)] :
         d \in
            {IF seg.kind # "null"
             THEN drawSegmentation(s, pm, cv1, vid, frame, seg)
             ELSE [threw |-> FALSE, canvas |-> drawImage(cv1, vid, frame),
                   prevMask |-> pm, ran |-> FALSE, mask |-> <<>>,
                   out |-> <<>>, blended |-> FALSE] :
             cv1 \in
                {IF cv.width # vid.videoWidth \/ cv.height # vid.videoHeight
                 THEN BlankCanvas(vid.videoWidth, vid.videoHeight)
                 ELSE cv}}} :
        TRUE

\* Renderer.render: [threw, canvas, prevMask, ran, mask, out, blended]
render(s, pm, cv, vid, frame, dets, seg) ==
    CHOOSE r \in
        {IF d.threw THEN d
         ELSE [d EXCEPT !.canvas.over = @ \cup DrawBoxes(s, dets, seg)] :
         d \in
            {IF seg.kind # "null" /\ s.segmentationMode
             THEN drawSegmentation(s, pm, cv1, vid, frame, seg)
             ELSE [threw |-> FALSE, canvas |-> drawImage(cv1, vid, frame),
                   prevMask |-> pm, ran |-> FALSE, mask |-> <<>>,
                   out |-> <<>>, blended |-> FALSE] :
             cv1 \in
                {IF cv.width # vid.videoWidth \/ cv.height # vid.videoHeight
                 THEN BlankCanvas(vid.videoWidth, vid.videoHeight)
                 ELSE cv}}} :
        TRUE

\* Renderer.clear
clear(s, cv) ==
    LET c == hexToRGB(s.bgColor)
    IN  [cv EXCEPT !.px = [i \in 1..(cv.width * cv.height) |->
                              <<c[1], c[2], c[3], 255>>],
                   !.over = {}]

-----------------------------------------------------------------------------
(* The inputs the specifications draw from *)

Gray100 == <<100, 100, 100>>

\* a 2x2 frame with several colours
PatternFrame == <<Gray100, <<10, 200, 30>>, <<0, 0, 0>>, <<255, 255, 255>>>>

UniformFrame(w, h) == [i \in 1..(w * h) |-> Gray100]

Masks(w, h) == [1..(w * h) -> {0, 1}]

Seg(w, h, data) == [kind |-> "mask", width |-> w, height |-> h, data |-> data]

\* the <video> element without a stream
NoVideo ==
    [srcObject |-> FALSE, live |-> FALSE, videoWidth |-> 0, videoHeight |-> 0]

\* the <video> element playing a w x h stream
LiveVideo(w, h) ==
    [srcObject |-> TRUE, live |-> TRUE, videoWidth |-> w, videoHeight |-> h]

\* new Detector(): confidence in tenths
NewDetector ==
    [cocoModel |-> FALSE, bodyPixModel |-> FALSE, isReady |-> FALSE,
     confidence |-> 5, personOnly |-> FALSE, mode |-> "detection"]

\* Detector.setMode, had it left the mode alone
setModeIgnored(d, m) == d

\* Detector.setMode
setMode(d, m) == [d EXCEPT !.mode = m]

\* Detector.setConfidence, had it stored the value as given
setConfidenceUnclamped(d, value) == [d EXCEPT !.confidence = value]

\* Detector.setConfidence
setConfidence(d, value) == [d EXCEPT !.confidence = Max(0, Min(10, value))]

\* Detector.setPersonOnly
setPersonOnly(d, enabled) == [d EXCEPT !.personOnly = enabled]

\* the two filters of Detector.detect over the oracle's predictions
\* [class, score], score in tenths
FilterPredictions(d, predictions) ==
    {q \in {p \in predictions : p.score >= d.confidence} :
        d.personOnly => q.class = "person"}

\* an async activity: pc is the await it is suspended at ("idle": none;
\* "loop": the await of loop, once detect has returned), dets the detections
\* detect holds across its second await and, with seg, the result it
\* returned, onFrame whether the pending oracle call was handed a video with
\* a frame, stopped whether stopCamera ran since the pending detect call was
\* made, ahead the activities whose continuation may stand before this one
\* in the microtask queue
IdleChain ==
    [pc |-> "idle", dets |-> {}, seg |-> NullSeg, onFrame |-> FALSE,
     stopped |-> FALSE, ahead |-> {}]

NoChains == [i \in 1..MaxChains |-> IdleChain]

NoTrace ==
    [op |-> "init", frames |-> 0, seg |-> NullSeg, videoData |-> <<>>,
     threw |-> FALSE, ran |-> FALSE, mask |-> <<>>, out |-> <<>>,
     blended |-> FALSE, oldPrev |-> NullMask, histDims |-> <<0, 0>>,
     prevDims |-> <<0, 0>>, histVideo |-> <<0, 0>>, prevVideo |-> <<0, 0>>,
     before |-> DefaultSettings, key |-> "", ret |-> NullRet,
     partial |-> [smoothing |-> 2],
     variant |-> 1, store |-> "premultiplied", dets |-> {}, calls |-> {},
     settled |-> "none", cause |-> "none", iterations |-> 0,
     ctx |-> [fillStyle |-> [css |-> "hex", hex |-> Black],
              strokeStyle |-> [css |-> "hex", hex |-> Black]],
     paints |-> <<>>, detList |-> <<>>,
     map |-> [x |-> 0, y |-> 0, maskX |-> 0, maskY |-> 0, maskIdx |-> 1],
     dom |-> [bgChecked |-> FALSE, segChecked |-> FALSE,
              fullscreen |-> FALSE, panel |-> FALSE],
     detects |-> 0, stale |-> FALSE, scheduled |-> FALSE,
     cleared |-> BlankCanvas(0, 0), frame |-> <<>>,
     prior |-> BlankCanvas(0, 0),
     used |-> [confidence |-> 5, personOnly |-> FALSE,
               mode |-> "detection"]]

\* one call of Renderer.render, and what the history variable keeps of it
Render(frame, dets, seg) ==
    \E r \in {render(settings, prevMask, canvas, video, frame, dets, seg)},
       processed \in {seg.kind = "mask" /\ settings.segmentationMode} :
        /\ canvas' = r.canvas
        /\ prevMask' = r.prevMask
        /\ trace' = [trace EXCEPT
              !.op = "render", !.frames = @ + 1, !.seg = seg,
              !.videoData = IF processed
                            THEN VideoData(video, frame, seg.width, seg.height)
                            ELSE <<>>,
              !.threw = r.threw, !.ran = r.ran, !.mask = r.mask,
              !.out = r.out, !.blended = r.blended,
              !.oldPrev = prevMask,
              !.prevDims = trace.histDims,
              !.histDims = IF processed THEN <<seg.width, seg.height>>
                           ELSE trace.histDims,
              !.prevVideo = trace.histVideo,
              !.histVideo = IF processed
                            THEN <<video.videoWidth, video.videoHeight>>
                            ELSE trace.histVideo]

-----------------------------------------------------------------------------
(* SpecMask: the mask history across frames.  The renderer is constructed, *)
(* the smoothing slider moves, the video changes its resolution (a device  *)
(* turned from landscape to portrait) and frames are rendered with the     *)
(* oracle's mask, which has the video's size.                              *)

MaskVideoSizes == {<<2, 1>>, <<1, 2>>}

MaskSmoothings == {0, 2, 5}

MaskInit ==
    /\ settings = DefaultSettings
    /\ presets = PresetTable
    /\ prevMask = NullMask
    /\ \E d \in MaskVideoSizes :
          /\ canvas = BlankCanvas(d[1], d[2])
          /\ video = LiveVideo(d[1], d[2])
    /\ detector = NewDetector
    /\ load = "coco"
    /\ isRunning = FALSE
    /\ detections = {}
    /\ segmentation = NullSeg
    /\ chains = NoChains
    /\ trace = NoTrace

\* the smoothing slider's input handler
MaskSetSmoothing ==
    \E k \in MaskSmoothings :
        /\ settings' = updateSettings(settings, [smoothing |-> k])
        /\ trace' = [trace EXCEPT !.op = "updateSettings",
                                  !.before = settings,
                                  !.partial = [smoothing |-> k]]
        /\ UNCHANGED <<presets, prevMask, canvas, video, detector, load,
                       isRunning, detections, segmentation, chains>>

\* the camera delivers another resolution
MaskResize ==
    \E d \in MaskVideoSizes :
        /\ d # <<video.videoWidth, video.videoHeight>>
        /\ video' = LiveVideo(d[1], d[2])
        /\ trace' = [trace EXCEPT !.op = "resize"]
        /\ UNCHANGED <<settings, presets, prevMask, canvas, detector, load, isRunning, detections, segmentation, chains>>

\* a frame is rendered with the oracle's mask
MaskRender ==
    /\ trace.frames < MaxFrames
    /\ \E m \in Masks(video.videoWidth, video.videoHeight) :
          Render(UniformFrame(video.videoWidth, video.videoHeight), {},
                 Seg(video.videoWidth, video.videoHeight, m))
    /\ UNCHANGED <<settings, presets, video, detector, load, isRunning,
                   detections, segmentation, chains>>

\* a frame is rendered without a mask
MaskRenderNull ==
    /\ trace.frames < MaxFrames
    /\ Render(UniformFrame(video.videoWidth, video.videoHeight), {}, NullSeg)
    /\ UNCHANGED <<settings, presets, video, detector, load, isRunning,
                   detections, segmentation, chains>>

MaskNext == MaskSetSmoothing \/ MaskResize \/ MaskRender \/ MaskRenderNull

SpecMask == MaskInit /\ [][MaskNext]_vars

-----------------------------------------------------------------------------
(* SpecStream: temporal smoothing of a constant stream.  The smoothing     *)
(* strength is set and the history is left by an earlier frame or absent;  *)
(* then smoothMask is called frame after frame with one and the same mask, *)
(* kept in trace.mask.                                                     *)

StreamSmoothings == 0..10

StreamSetSmoothing ==
    /\ trace.frames = 0
    /\ \E k \in StreamSmoothings :
          /\ settings' = updateSettings(settings, [smoothing |-> k])
          /\ trace' = [trace EXCEPT !.op = "updateSettings"]
    /\ UNCHANGED <<presets, prevMask, canvas, video, detector, load,
                   isRunning, detections, segmentation, chains>>

\* an earlier frame with another mask leaves its history behind
StreamPrime ==
    /\ trace.frames = 0
    /\ prevMask.isNull
    /\ \E m \in Masks(2, 1) :
          prevMask' = smoothMask(settings, prevMask, m).prevMask
    /\ trace' = [trace EXCEPT !.op = "prime"]
    /\ UNCHANGED <<settings, presets, canvas, video, detector, load,
                   isRunning, detections, segmentation, chains>>

\* one call of smoothMask on the stream's mask
StreamFrame ==
    /\ trace.frames < MaxStream
    /\ \E m \in (IF trace.frames = 0 THEN Masks(2, 1) ELSE {trace.mask}) :
          \E r \in {smoothMask(settings, prevMask, m)} :
              /\ prevMask' = r.prevMask
              /\ trace' = [trace EXCEPT !.op = "stream", !.frames = @ + 1,
                                        !.mask = m, !.out = r.out,
                                        !.blended = r.blended,
                                        !.oldPrev = prevMask]
    /\ UNCHANGED <<settings, presets, canvas, video, detector, load,
                   isRunning, detections, segmentation, chains>>

StreamNext == StreamSetSmoothing \/ StreamPrime \/ StreamFrame

SpecStream == MaskInit /\ [][StreamNext]_vars

-----------------------------------------------------------------------------
(* SpecBlur: the spatial filter as a function of its iteration count.  A   *)
(* mask of one of several shapes is given; blurMask is applied to it with  *)
(* 0 iterations, then with one more each time.                             *)

BlurSizes == {<<2, 1>>, <<1, 2>>, <<2, 2>>, <<3, 1>>, <<1, 3>>, <<3, 3>>}

BlurInit ==
    /\ settings = DefaultSettings
    /\ presets = PresetTable
    /\ prevMask = NullMask
    /\ canvas = BlankCanvas(0, 0)
    /\ video = NoVideo
    /\ detector = NewDetector
    /\ load = "coco"
    /\ isRunning = FALSE
    /\ detections = {}
    /\ \E d \in BlurSizes :
          \E m \in Masks(d[1], d[2]) : segmentation = Seg(d[1], d[2], m)
    /\ chains = NoChains
    /\ trace = NoTrace

\* blurMask with 0 iterations
BlurNone ==
    /\ trace.op = "init"
    /\ trace' = [trace EXCEPT
                     !.op = "blur", !.iterations = 0,
                     !.out = blurMask(segmentation.data, segmentation.width,
                                      segmentation.height, 0)]
    /\ UNCHANGED <<settings, presets, prevMask, canvas, video, detector,
                   load, isRunning, detections, segmentation, chains>>

\* blurMask with one iteration more than the last time
BlurMore ==
    /\ trace.op = "blur"
    /\ trace.iterations < MaxBlur
    /\ trace' = [trace EXCEPT
                     !.iterations = @ + 1,
                     !.out = blurMask(segmentation.data, segmentation.width,
                                      segmentation.height,
                                      trace.iterations + 1)]
    /\ UNCHANGED <<settings, presets, prevMask, canvas, video, detector,
                   load, isRunning, detections, segmentation, chains>>

BlurNext == BlurNone \/ BlurMore

SpecBlur == BlurInit /\ [][BlurNext]_vars

-----------------------------------------------------------------------------
(* SpecMap: the coordinate mapping of the pixel loop.  A canvas and a mask *)
(* of any sizes up to MaxSide, or of sides 14 and 18, where the double     *)
(* quotient first falls short of an integer, are given; the loop body's    *)
(* mapping is applied to one output pixel at a time, in the loop's order.  *)

MapSides == (1..MaxSide) \cup {14, 18}

MapInit ==
    /\ settings = DefaultSettings
    /\ presets = PresetTable
    /\ prevMask = NullMask
    /\ \E cw \in MapSides, ch \in MapSides : canvas = BlankCanvas(cw, ch)
    /\ video = NoVideo
    /\ detector = NewDetector
    /\ load = "coco"
    /\ isRunning = FALSE
    /\ detections = {}
    /\ \E width \in MapSides, height \in MapSides :
          segmentation = Seg(width, height, [i \in 1..(width * height) |-> 1])
    /\ chains = NoChains
    /\ trace = NoTrace

\* the mapping of output pixel (x, y) in the pixel loop of drawSegmentation
MapPixel ==
    /\ \E x \in 0..(canvas.width - 1), y \in 0..(canvas.height - 1) :
          /\ IF trace.op # "map" THEN x = 0 /\ y = 0
             ELSE y * canvas.width + x
                      = trace.map.y * canvas.width + trace.map.x + 1
          /\ trace' = [trace EXCEPT
                       !.op = "map",
                       !.map = [x |-> x, y |-> y,
                                maskX |-> MaskCoord(x, canvas.width,
                                                    segmentation.width),
                                maskY |-> MaskCoord(y, canvas.height,
                                                    segmentation.height),
                                maskIdx |-> MaskIdxOf(y * canvas.width + x + 1,
                                                      canvas.width,
                                                      canvas.height,
                                                      segmentation.width,
                                                      segmentation.height)]]
    /\ UNCHANGED <<settings, presets, prevMask, canvas, video, detector,
                   load, isRunning, detections, segmentation, chains>>

MapNext == MapPixel

SpecMap == MapInit /\ [][MapNext]_vars

-----------------------------------------------------------------------------
(* SpecSpatial: the two calls at the head of drawSegmentation on one mask, *)
(* frame after frame, under any smoothing strength from 0 to 11.  The mask *)
(* never changes, so the temporal stage hands it on as it is and the       *)
(* output is that of the spatial stage.                                    *)

SpatialSmoothings == 0..11

SpatialSetSmoothing ==
    /\ \E k \in SpatialSmoothings :
          settings' = updateSettings(settings, [smoothing |-> k])
    /\ trace' = [trace EXCEPT !.op = "updateSettings"]
    /\ UNCHANGED <<presets, prevMask, canvas, video, detector, load,
                   isRunning, detections, segmentation, chains>>

\* smoothMask, then blurMask with floor(smoothing / 3) iterations
SpatialProcess ==
    /\ \E r \in {ProcessMask(settings, prevMask, segmentation)} :
          /\ prevMask' = r.prevMask
          /\ trace' = [trace EXCEPT !.op = "process", !.out = r.out,
                                    !.blended = r.blended]
    /\ UNCHANGED <<settings, presets, canvas, video, detector, load,
                   isRunning, detections, segmentation, chains>>

SpatialNext == SpatialSetSmoothing \/ SpatialProcess

SpecSpatial == BlurInit /\ [][SpatialNext]_vars

-----------------------------------------------------------------------------
(* SpecRender: compositing.  The renderer is constructed, the UI layer     *)
(* applies presets and partial settings, then frames are rendered.         *)

RenderPresetKeys == {"R", "O"}

RenderPartials ==
    {[vizMode |-> m] : m \in {"fill", "outline", "both"}}
        \cup {[bgReplace |-> b] : b \in BOOLEAN}
        \cup {[fillOpacity |-> o] : o \in {5, 15, -5}}
        \cup {[smoothing |-> -3], [bgColor |-> Blue600]}

\* a 2x2 frame whose first pixel blends with red at 0.3 to halves
\* (146.5, 10.5, 31.5 in exact arithmetic)
HalvesFrame == <<<<100, 15, 45>>, <<1, 1, 1>>, <<0, 0, 0>>, <<255, 255, 255>>>>

RenderInit ==
    /\ settings = DefaultSettings
    /\ presets = PresetTable
    /\ prevMask = NullMask
    /\ canvas = BlankCanvas(2, 2)
    /\ video = LiveVideo(2, 2)
    /\ detector = NewDetector
    /\ load = "coco"
    /\ isRunning = FALSE
    /\ detections = {}
    /\ segmentation = NullSeg
    /\ chains = NoChains
    /\ trace = NoTrace

RenderUnchanged ==
    UNCHANGED <<presets, video, detector, load, isRunning, detections,
                segmentation, chains>>

\* a slider, picker, toggle or mode button of the UI layer
RenderUpdateSettings ==
    /\ trace.frames = 0
    /\ \E u \in RenderPartials : settings' = updateSettings(settings, u)
    /\ UNCHANGED <<prevMask, canvas, trace>>
    /\ RenderUnchanged

\* a preset key
RenderApplyPreset ==
    /\ trace.frames = 0
    /\ \E k \in RenderPresetKeys :
          settings' = applyPreset(settings, presets, k).settings
    /\ UNCHANGED <<prevMask, canvas, trace>>
    /\ RenderUnchanged

\* a frame with a mask of the video's size
RenderFull ==
    /\ trace.frames < MaxComposites
    /\ \E m \in Masks(2, 2) :
          Render(PatternFrame, {"person", "cup"}, Seg(2, 2, m))
    /\ UNCHANGED settings
    /\ RenderUnchanged

\* a frame whose blend falls on halves, with a mask of the video's size
RenderHalves ==
    /\ trace.frames < MaxComposites
    /\ \E m \in {<<1, 1, 1, 1>>, <<1, 0, 0, 1>>} :
          Render(HalvesFrame, {"person", "cup"}, Seg(2, 2, m))
    /\ UNCHANGED settings
    /\ RenderUnchanged

\* a frame with a mask of half the video's size
RenderHalf ==
    /\ trace.frames < MaxComposites
    /\ \E m \in Masks(1, 1) :
          Render(UniformFrame(2, 2), {"person", "cup"}, Seg(1, 1, m))
    /\ UNCHANGED settings
    /\ RenderUnchanged

RenderNext ==
    \/ RenderUpdateSettings
    \/ RenderApplyPreset
    \/ RenderFull
    \/ RenderHalves
    \/ RenderHalf

SpecRender == RenderInit /\ [][RenderNext]_vars

-----------------------------------------------------------------------------
(* SpecSettings: the settings record of either Renderer variant under      *)
(* calls of updateSettings and applyPreset.                                *)

SettingsPartials ==
    {[vizMode |-> "outline"], [fillOpacity |-> 9], [bgReplace |-> TRUE],
     [smoothing |-> 5], [colorMode |-> "position"], [boxScale |-> 15],
     [showLabels |-> FALSE, segmentationMode |-> FALSE]}

\* the keys handleKeyPress passes on, and two the table does not hold
SettingsKeys == {"E", "R", "T", "Z", "U", "I", "O", "X", "constructor"}

SettingsInit ==
    /\ settings \in {DefaultSettings, DefaultSettings2}
    /\ presets = PresetTable
    /\ prevMask = NullMask
    /\ canvas = BlankCanvas(0, 0)
    /\ video = NoVideo
    /\ detector = NewDetector
    /\ load = "coco"
    /\ isRunning = FALSE
    /\ detections = {}
    /\ segmentation = NullSeg
    /\ chains = NoChains
    /\ trace = NoTrace

SettingsUnchanged ==
    UNCHANGED <<presets, prevMask, canvas, video, detector, load,
                isRunning, detections, segmentation, chains>>

SettingsUpdate ==
    /\ \E u \in SettingsPartials :
          /\ settings' = updateSettings(settings, u)
          /\ trace' = [trace EXCEPT !.op = "updateSettings",
                                    !.before = settings, !.partial = u]
    /\ SettingsUnchanged

SettingsApplyPreset ==
    /\ \E k \in SettingsKeys :
          \E r \in {applyPreset(settings, presets, k)} :
              /\ settings' = r.settings
              /\ trace' = [trace EXCEPT !.op = "applyPreset",
                                        !.before = settings, !.key = k,
                                        !.ret = r.ret]
    /\ SettingsUnchanged

SettingsNext == SettingsUpdate \/ SettingsApplyPreset

SpecSettings == SettingsInit /\ [][SettingsNext]_vars

-----------------------------------------------------------------------------
(* Renderer: detection boxes, with their geometry, in both variants.  A    *)
(* detection is [class, bbox], bbox = <<x, y, width, height>> in pixels; a *)
(* drawn box is the same tuple in twentieths of a pixel, which holds the   *)
(* halves and the tenths of boxScale exactly.  A drawing call is           *)
(* [kind, class, box]: kind "fill" is fillRect, "outline" strokeRect, and  *)
(* "label" the label drawn at the corner of box.                           *)

\* x, y, width, height as drawDetection of the first variant passes them on
PlainBox(bbox) == <<20 * bbox[1], 20 * bbox[2], 20 * bbox[3], 20 * bbox[4]>>

\* x, y, width, height after "Apply box scale" of the second variant
\* (boxScale in tenths)
ScaleBox(s, bbox) ==
    IF s.boxScale # 10
    THEN <<20 * bbox[1] + 10 * bbox[3] - s.boxScale * bbox[3],
           20 * bbox[2] + 10 * bbox[4] - s.boxScale * bbox[4],
           2 * s.boxScale * bbox[3],
           2 * s.boxScale * bbox[4]>>
    ELSE PlainBox(bbox)

Call(kind, det, box) == [kind |-> kind, class |-> det.class, box |-> box]

\* Renderer.drawDetection of the first variant: the calls it makes
drawDetectionCalls(s, det) ==
    (IF FillsOn(s) THEN {Call("fill", det, PlainBox(det.bbox))} ELSE {})
        \cup (IF OutlinesOn(s)
              THEN {Call("outline", det, PlainBox(det.bbox))} ELSE {})
        \cup (IF s.showLabels
              THEN {Call("label", det, PlainBox(det.bbox))} ELSE {})

\* the detections loop of render in the first variant
BoxCalls(s, dets, seg) ==
    UNION {IF seg.kind = "null" \/ ~s.segmentationMode \/ det.class # "person"
           THEN drawDetectionCalls(s, det)
           ELSE IF s.showLabels
                THEN {Call("label", det, PlainBox(det.bbox))}
                ELSE {} : det \in dets}

\* Renderer.drawDetection of the second variant: the calls it makes
drawDetectionCalls2(s, det) ==
    LET box == ScaleBox(s, det.bbox)
        boxed == ~s.segmentationMode \/ det.class # "person"
    IN  (IF boxed /\ FillsOn(s) THEN {Call("fill", det, box)} ELSE {})
            \cup (IF boxed /\ OutlinesOn(s)
                  THEN {Call("outline", det, box)} ELSE {})
            \cup (IF s.showLabels THEN {Call("label", det, box)} ELSE {})

\* the detections loop of render in the second variant
BoxCalls2(s, dets, seg) ==
    UNION {IF seg.kind = "null" \/ ~s.segmentationMode \/ det.class # "person"
           THEN drawDetectionCalls2(s, det)
           ELSE IF s.showLabels
                THEN {Call("label", det, PlainBox(det.bbox))}
                ELSE {} : det \in dets}

-----------------------------------------------------------------------------
(* Renderer, second variant: the mask image drawSegmentation builds at     *)
(* mask resolution before it is drawn scaled onto the canvas.              *)

\* Math.round(fillOpacity * 255) as stored into maskData.data
AlphaByte(s) == Max(0, Min(255, FloorDiv(s.fillOpacity * 51 + 1, 2)))

\* maskData after the fill loop and the edge loop
MaskImage2(s, seg) ==
    LET fillRGB == hexToRGB(s.fillColor)
        outlineRGB == hexToRGB(s.outlineColor)
        edges == IF OutlinesOn(s)
                 THEN EdgeCells(seg.data, seg.width, seg.height) ELSE {}
    IN  [i \in 1..(seg.width * seg.height) |->
            IF i \in edges
            THEN <<outlineRGB[1], outlineRGB[2], outlineRGB[3], 255>>
            ELSE IF i <= Len(seg.data) /\ seg.data[i] = 1 /\ FillsOn(s)
                 THEN <<fillRGB[1], fillRGB[2], fillRGB[3], AlphaByte(s)>>
                 ELSE Transparent]

\* n / d to the nearest integer, for n >= 0 and d > 0
RoundDiv(n, d) == (2 * n + d) \div (2 * d)

\* how the build keeps a canvas bitmap: each colour byte multiplied by its
\* alpha, as the 2D canvases of browsers do, or as it is
CanvasStores == {"premultiplied", "straight"}

\* the pixel src composited "source-over" on the pixel dst, both
\* <<r, g, b, a>> in bytes as getImageData reads them.  The alpha is
\* a_s + a_d (1 - a_s) and a colour the mean of the two weighted by a_s and
\* a_d (1 - a_s); which byte that becomes is the build's: a premultiplied
\* bitmap rounds the source to c a / 255, adds the destination's bytes times
\* (255 - a_s) / 255 and divides by the alpha on reading, each step to the
\* nearest byte; a straight one rounds the exact value once
SourceOver(src, dst, store) ==
    IF store = "premultiplied"
    THEN LET rest == 255 - src[4]
             pre(c) == RoundDiv(src[c] * src[4], 255)
                           + RoundDiv(RoundDiv(dst[c] * dst[4], 255) * rest,
                                      255)
             alpha == src[4] + RoundDiv(dst[4] * rest, 255)
         IN  IF alpha = 0 THEN Transparent
             ELSE <<RoundDiv(255 * pre(1), alpha),
                    RoundDiv(255 * pre(2), alpha),
                    RoundDiv(255 * pre(3), alpha), alpha>>
    ELSE IF src[4] = 0 THEN dst
    ELSE IF src[4] = 255 THEN src
    ELSE CHOOSE r \in
            {<<RoundDiv(255 * src[4] * src[1] + w * dst[1], 255 * src[4] + w),
               RoundDiv(255 * src[4] * src[2] + w * dst[2], 255 * src[4] + w),
               RoundDiv(255 * src[4] * src[3] + w * dst[3], 255 * src[4] + w),
               RoundDiv(255 * src[4] + w, 255)>> :
             w \in {dst[4] * (255 - src[4])}} :
            TRUE

\* Renderer.drawSegmentation of the second variant on canvas cv: the mask
\* image is drawn over the canvas at the canvas's size.  An image of the
\* canvas's size is drawn cell on pixel; an image of one colour stays that
\* colour at any size, whatever the interpolation (the only images supplied
\* when the sizes differ have one cell)
drawSegmentation2(s, cv, seg, store) ==
    IF seg.kind # "mask" THEN cv
    ELSE CHOOSE r \in
            {[cv EXCEPT !.px =
                 [i \in 1..(cv.width * cv.height) |->
                     SourceOver(IF seg.width = cv.width
                                       /\ seg.height = cv.height
                                THEN img[i] ELSE img[1],
                                cv.px[i], store)]] :
             img \in {MaskImage2(s, seg)}} :
            TRUE

\* Renderer.render of the second variant: the canvas it leaves.  boxes are
\* the drawing calls of its detections loop, as <<kind, class>>
render2(s, cv, vid, frame, boxes, seg, store) ==
    CHOOSE r \in
        {[d EXCEPT !.over = @ \cup boxes] :
         d \in
            {IF seg.kind # "null" /\ s.segmentationMode
             THEN drawSegmentation2(s, f, seg, store)
             ELSE f :
             f \in
                {drawImage(cv1, vid, frame) :
                 cv1 \in
                    {IF cv.width # vid.videoWidth
                           \/ cv.height # vid.videoHeight
                     THEN BlankCanvas(vid.videoWidth, vid.videoHeight)
                     ELSE cv}}}} :
        TRUE

\* the outline pass of the first variant's drawSegmentation over pixels px
OutlinePass(s, px, maskData, cw, ch, width, height) ==
    IF OutlinesOn(s) THEN drawOutline(s, px, maskData, cw, ch, width, height)
    ELSE px

-----------------------------------------------------------------------------
(* SpecOutline: the outline tracer of either variant over one mask, drawn  *)
(* from several shapes; the first variant paints a canvas of the mask's    *)
(* size or twice it.                                                       *)

OutlineSizes == {<<1, 1>>, <<2, 2>>, <<3, 1>>, <<1, 3>>, <<3, 3>>}

OutlinePartials ==
    {[vizMode |-> m] : m \in {"fill", "outline", "both"}}
        \cup {[outlineThickness |-> t] : t \in {1, 3}}

OutlineInit ==
    /\ \E v \in {1, 2} :
          /\ settings = IF v = 1 THEN DefaultSettings ELSE DefaultSettings2
          /\ \E st \in IF v = 1 THEN {NoTrace.store} ELSE CanvasStores :
                trace = [NoTrace EXCEPT !.variant = v, !.store = st]
    /\ presets = PresetTable
    /\ prevMask = NullMask
    /\ canvas = BlankCanvas(0, 0)
    /\ video = NoVideo
    /\ detector = NewDetector
    /\ load = "coco"
    /\ isRunning = FALSE
    /\ detections = {}
    /\ \E d \in OutlineSizes :
          \E m \in Masks(d[1], d[2]) : segmentation = Seg(d[1], d[2], m)
    /\ chains = NoChains

OutlineUpdateSettings ==
    /\ \E u \in OutlinePartials : settings' = updateSettings(settings, u)
    /\ trace' = [trace EXCEPT !.op = "updateSettings"]
    /\ UNCHANGED <<presets, prevMask, canvas, video, detector, load,
                   isRunning, detections, segmentation, chains>>

\* the first variant's outline pass over a cleared canvas
OutlineDraw ==
    /\ trace.variant = 1
    /\ \E k \in {1, 2} :
          \E seg \in {segmentation} :
              /\ canvas' = [BlankCanvas(k * seg.width, k * seg.height) EXCEPT
                     !.px = OutlinePass(settings, @, seg.data, k * seg.width,
                                        k * seg.height, seg.width, seg.height)]
              /\ trace' = [trace EXCEPT !.op = "outline", !.seg = seg]
    /\ UNCHANGED <<settings, presets, prevMask, video, detector, load,
                   isRunning, detections, segmentation, chains>>

\* the second variant's drawSegmentation on a cleared canvas of the mask's
\* size
OutlineDraw2 ==
    /\ trace.variant = 2
    /\ \E seg \in {segmentation} :
          /\ canvas' = drawSegmentation2(settings,
                           BlankCanvas(seg.width, seg.height), seg,
                           trace.store)
          /\ trace' = [trace EXCEPT !.op = "outline", !.seg = seg]
    /\ UNCHANGED <<settings, presets, prevMask, video, detector, load,
                   isRunning, detections, segmentation, chains>>

OutlineNext == OutlineUpdateSettings \/ OutlineDraw \/ OutlineDraw2

SpecOutline == OutlineInit /\ [][OutlineNext]_vars

-----------------------------------------------------------------------------
(* Renderer, second variant: the colours of the detection boxes.  A colour *)
(* text is [css |-> "hex", hex], [css |-> "hsl", hue, sat] with hue and    *)
(* saturation as rationals and lightness 50%, [css |-> "rgba", rgb, alpha] *)
(* with alpha in tenths, or [css |-> "invalid"] for a text no CSS colour   *)
(* parser accepts.  ctx holds the context's fillStyle and strokeStyle.     *)

HexText(c) == [css |-> "hex", hex |-> c]

InvalidText == [css |-> "invalid"]

\* the context of a canvas whose size was just set
DefaultCtx == [fillStyle |-> HexText(Black), strokeStyle |-> HexText(Black)]

\* Renderer.getPositionColor on a box in twentieths of a pixel
getPositionColor(box, cw, ch) ==
    [css |-> "hsl",
     hue |-> Rat((2 * box[1] + box[3]) * 360, 40 * cw),
     sat |-> RatAdd(Rat(70, 1), Rat((2 * box[2] + box[4]) * 30, 40 * ch))]

\* Renderer.hexToRGBA: the text it returns.  Of a text that is not #rrggbb
\* the slices parse to NaN ("sl" of "hsl(...") and the text is
\* "rgba(NaN, NaN, ..., alpha)"
hexToRGBA(text, alpha) ==
    IF text.css = "hex"
    THEN [css |-> "rgba", rgb |-> hexToRGB(text.hex), alpha |-> alpha]
    ELSE InvalidText

\* assignment to ctx.fillStyle or ctx.strokeStyle: a text that does not
\* parse as a colour is ignored
SetStyle(old, text) == IF text.css = "invalid" THEN old ELSE text

\* 'rgba(0, 0, 0, 0.75)', the alpha in hundredths
LabelBack == [css |-> "rgba", rgb |-> <<0, 0, 0>>, alpha100 |-> 75]

Paint(kind, det, style) == [kind |-> kind, class |-> det.class, style |-> style]

\* the label of a detection: ctx and the paints appended
DrawLabel(det, st) ==
    [ctx |-> [st.ctx EXCEPT !.fillStyle = HexText(White)],
     paints |-> st.paints \o <<Paint("labelBox", det, LabelBack),
                               Paint("labelText", det, HexText(White))>>]

\* Renderer.drawDetection of the second variant with its colours:
\* st = [ctx, paints] before, the same after
drawDetection2(s, det, st, cw, ch) ==
    LET box == ScaleBox(s, det.bbox)
        fillColor == IF s.colorMode = "position"
                     THEN getPositionColor(box, cw, ch)
                     ELSE HexText(s.fillColor)
        outlineColor == IF s.colorMode = "position" THEN fillColor
                        ELSE HexText(s.outlineColor)
        boxed == ~s.segmentationMode \/ det.class # "person"
        fs == IF boxed /\ FillsOn(s)
              THEN SetStyle(st.ctx.fillStyle, hexToRGBA(fillColor, s.fillOpacity))
              ELSE st.ctx.fillStyle
        ss == IF boxed /\ OutlinesOn(s)
              THEN SetStyle(st.ctx.strokeStyle, outlineColor)
              ELSE st.ctx.strokeStyle
        st2 == [ctx |-> [fillStyle |-> fs, strokeStyle |-> ss],
                paints |-> st.paints
                    \o (IF boxed /\ FillsOn(s)
                        THEN <<Paint("fill", det, fs)>> ELSE <<>>)
                    \o (IF boxed /\ OutlinesOn(s)
                        THEN <<Paint("outline", det, ss)>> ELSE <<>>)]
    IN  IF s.showLabels THEN DrawLabel(det, st2) ELSE st2

\* the drawing calls behind a sequence of paints, as <<kind, class>>
PaintCalls(paints) ==
    {<<IF paints[i].kind \in {"labelBox", "labelText"} THEN "label"
       ELSE paints[i].kind, paints[i].class>> : i \in 1..Len(paints)}

\* the detections loop of render in the second variant, in array order
RECURSIVE DrawAll2(_, _, _, _, _, _)
DrawAll2(s, dets, seg, st, cw, ch) ==
    IF dets = <<>> THEN st
    ELSE LET det == Head(dets)
             next == IF seg.kind = "null" \/ ~s.segmentationMode
                         \/ det.class # "person"
                     THEN drawDetection2(s, det, st, cw, ch)
                     ELSE IF s.showLabels THEN DrawLabel(det, st) ELSE st
         IN  DrawAll2(s, Tail(dets), seg, next, cw, ch)

-----------------------------------------------------------------------------
(* SpecColors: the second variant renders frames of an 8x4 video with up   *)
(* to two detections, under settings reached by updateSettings.  trace.ctx *)
(* is the canvas context, trace.paints what the last render painted with   *)
(* which style; the canvas holds the frame, the mask image over it and the *)
(* drawing calls over both.                                                *)

ColorDetections ==
    {[class |-> "person", bbox |-> <<2, 1, 4, 2>>],
     [class |-> "cup", bbox |-> <<0, 0, 2, 2>>]}

ColorDetectionLists ==
    {<<>>} \cup {<<d>> : d \in ColorDetections}
        \cup {<<d, e>> : d \in ColorDetections, e \in ColorDetections}

ColorPartials ==
    {[vizMode |-> m] : m \in {"fill", "outline", "both"}}
        \cup {[colorMode |-> m] : m \in {"fixed", "position"}}
        \cup {[showLabels |-> b] : b \in BOOLEAN}
        \cup {[segmentationMode |-> b] : b \in BOOLEAN}
        \cup {[boxScale |-> k] : k \in {10, 20}}

ColorInit ==
    /\ settings = DefaultSettings2
    /\ presets = PresetTable
    /\ prevMask = NullMask
    /\ canvas = BlankCanvas(0, 0)
    /\ video = LiveVideo(8, 4)
    /\ detector = NewDetector
    /\ load = "coco"
    /\ isRunning = FALSE
    /\ detections = {}
    /\ segmentation = NullSeg
    /\ chains = NoChains
    /\ \E st \in CanvasStores :
          trace = [NoTrace EXCEPT !.variant = 2, !.store = st]

ColorUpdateSettings ==
    /\ \E u \in ColorPartials : settings' = updateSettings(settings, u)
    /\ trace' = [trace EXCEPT !.op = "updateSettings"]
    /\ UNCHANGED <<presets, prevMask, canvas, video, detector, load,
                   isRunning, detections, segmentation, chains>>

\* render: the canvas takes the video's size, its context being reset when
\* the size changes, the frame is drawn, the mask image over it, then the
\* detections
ColorRender ==
    /\ \E dets \in ColorDetectionLists, seg \in {NullSeg, Seg(1, 1, <<1>>)} :
          \E resized \in {canvas.width # video.videoWidth
                              \/ canvas.height # video.videoHeight} :
              \E st \in {DrawAll2(settings, dets, seg,
                                  [ctx |-> IF resized THEN DefaultCtx
                                           ELSE trace.ctx,
                                   paints |-> <<>>],
                                  video.videoWidth, video.videoHeight)} :
                  /\ canvas' = render2(settings, canvas, video,
                                       UniformFrame(video.videoWidth,
                                                    video.videoHeight),
                                       PaintCalls(st.paints), seg,
                                       trace.store)
                  /\ trace' = [trace EXCEPT !.op = "colors", !.seg = seg,
                                            !.detList = dets, !.ctx = st.ctx,
                                            !.paints = st.paints]
    /\ UNCHANGED <<settings, presets, prevMask, video, detector, load,
                   isRunning, detections, segmentation, chains>>

ColorNext == ColorUpdateSettings \/ ColorRender

SpecColors == ColorInit /\ [][ColorNext]_vars

-----------------------------------------------------------------------------
(* SpecBoxes: render with up to two detections, in either variant, under   *)
(* settings reached by updateSettings, of a video without a stream (as     *)
(* after stopCamera) or of a live 2x2 video.  trace.calls are the drawing  *)
(* calls the detections loop made, with their rectangles.                  *)

BoxDetections ==
    {[class |-> "person", bbox |-> <<10, 10, 20, 20>>],
     [class |-> "cup", bbox |-> <<3, 5, 7, 9>>]}

BoxPartials ==
    {[vizMode |-> m] : m \in {"fill", "outline", "both"}}
        \cup {[showLabels |-> b] : b \in BOOLEAN}
        \cup {[segmentationMode |-> b] : b \in BOOLEAN}
        \cup {[boxScale |-> k] : k \in {5, 10, 15, 20}}

BoxInit ==
    /\ \E v \in {1, 2} :
          /\ settings = IF v = 1 THEN DefaultSettings ELSE DefaultSettings2
          /\ \E st \in IF v = 1 THEN {NoTrace.store} ELSE CanvasStores :
                trace = [NoTrace EXCEPT !.variant = v, !.store = st]
    /\ presets = PresetTable
    /\ prevMask = NullMask
    /\ canvas = BlankCanvas(0, 0)
    /\ video \in {NoVideo, LiveVideo(2, 2)}
    /\ detector = NewDetector
    /\ load = "coco"
    /\ isRunning = FALSE
    /\ detections = {}
    /\ segmentation = NullSeg
    /\ chains = NoChains

BoxUpdateSettings ==
    /\ \E u \in BoxPartials : settings' = updateSettings(settings, u)
    /\ trace' = [trace EXCEPT !.op = "updateSettings"]
    /\ UNCHANGED <<presets, prevMask, canvas, video, detector, load,
                   isRunning, detections, segmentation, chains>>

\* renderer.render(video, detections, segmentation) on a detect result.  In
\* the first variant drawSegmentation runs before the detections loop, and
\* once it has thrown the loop is not reached
BoxRender ==
    /\ \E dets \in SUBSET BoxDetections, seg \in {NullSeg, Seg(1, 1, <<1>>)},
          frame \in {UniformFrame(video.videoWidth, video.videoHeight)} :
          IF trace.variant = 1
          THEN \E r \in {render(settings, prevMask, canvas, video, frame,
                                {d.class : d \in dets}, seg)} :
                  /\ canvas' = r.canvas
                  /\ prevMask' = r.prevMask
                  /\ trace' = [trace EXCEPT
                        !.op = "boxes", !.dets = dets, !.seg = seg,
                        !.threw = r.threw,
                        !.calls = IF r.threw THEN {}
                                  ELSE BoxCalls(settings, dets, seg)]
          ELSE \E calls \in {BoxCalls2(settings, dets, seg)} :
                  /\ canvas' = render2(settings, canvas, video, frame,
                                       {<<c.kind, c.class>> : c \in calls},
                                       seg, trace.store)
                  /\ prevMask' = prevMask
                  /\ trace' = [trace EXCEPT
                        !.op = "boxes", !.dets = dets, !.seg = seg,
                        !.threw = FALSE, !.calls = calls]
    /\ UNCHANGED <<settings, presets, video, detector, load, isRunning,
                   detections, segmentation, chains>>

BoxNext == BoxUpdateSettings \/ BoxRender

SpecBoxes == BoxInit /\ [][BoxNext]_vars

-----------------------------------------------------------------------------
(* Spec: the application.  App.init loads the models; the start button     *)
(* and the mode buttons then drive the camera and the frame loop.  Each    *)
(* await of startCamera, loop and detect is a point where other handlers   *)
(* run; what follows an await up to the next one is one step.  The awaits  *)
(* of getUserMedia, video.play, cocoModel.detect and segmentPerson wait    *)
(* for the outside world.  The await in loop waits for detect's own        *)
(* promise: the return of detect queues the rest of loop as a microtask,   *)
(* behind the continuations already queued (those of promises settled in   *)
(* the same task), and no event handler or animation frame callback runs   *)
(* before the queue is empty.                                              *)

\* what the object-detection oracle may return for a frame
AppPredictions ==
    {{}, {[class |-> "person", score |-> 9], [class |-> "cup", score |-> 7],
          [class |-> "chair", score |-> 4]}}

\* the awaits of promises settled from outside the program
ExternalAwaits == {"getUserMedia", "play", "coco", "seg"}

\* the activities whose detect call has returned and whose loop has not
\* resumed: the microtask queue holds their continuations
Returned == {i \in 1..MaxChains : chains[i].pc = "loop"}

\* a task (an event handler, an animation frame callback) runs only on an
\* empty microtask queue
QueueEmpty == Returned = {}

\* the continuation of activity j after an outside await may run now: it
\* was queued before the continuation of every returned loop
MayContinue(j) == \A i \in Returned : j \in chains[i].ahead

\* the activities cs once the continuation of i has run: whatever i awaits
\* next is queued behind the continuations waiting now
Continued(cs, i) ==
    [k \in 1..MaxChains |-> [cs[k] EXCEPT !.ahead = @ \ {i}]]

\* the history after a step that is not the rest of loop: what the last
\* frame did is forgotten
AppStep ==
    [trace EXCEPT !.op = "app", !.threw = FALSE, !.ran = FALSE,
                  !.stale = FALSE, !.scheduled = FALSE]

\* the index of a free slot
FreeSlot(i) ==
    /\ chains[i].pc = "idle"
    /\ \A j \in 1..(i - 1) : chains[j].pc # "idle"

\* the history Spec keeps: the last step, what the last frame did, the
\* canvas stopCamera left, and the number of detect calls
AppTrace ==
    [f \in {"op", "threw", "ran", "stale", "scheduled", "cleared", "detects"}
        |-> NoTrace[f]]

Init ==
    /\ settings = DefaultSettings
    /\ presets = PresetTable
    /\ prevMask = NullMask
    /\ canvas = BlankCanvas(0, 0)
    /\ video = NoVideo
    /\ detector = NewDetector
    /\ load = "coco"
    /\ isRunning = FALSE
    /\ detections = {}
    /\ segmentation = NullSeg
    /\ chains = NoChains
    /\ trace = AppTrace

\* Detector.load: cocoSsd.load resolved
LoadCocoOk ==
    /\ load = "coco"
    /\ detector' = [detector EXCEPT !.cocoModel = TRUE]
    /\ load' = "bodypix"
    /\ trace' = AppStep
    /\ UNCHANGED <<settings, presets, prevMask, canvas, video, isRunning,
                   detections, segmentation, chains>>

\* Detector.load: bodyPix.load resolved; App.init installs the handlers
LoadBodyPixOk ==
    /\ load = "bodypix"
    /\ detector' = [detector EXCEPT !.bodyPixModel = TRUE, !.isReady = TRUE]
    /\ load' = "ready"
    /\ trace' = AppStep
    /\ UNCHANGED <<settings, presets, prevMask, canvas, video, isRunning,
                   detections, segmentation, chains>>

\* Detector.load: a model failed to load; App.init reports and stops
LoadFail ==
    /\ load \in {"coco", "bodypix"}
    /\ load' = "failed"
    /\ trace' = AppStep
    /\ UNCHANGED <<settings, presets, prevMask, canvas, video, detector,
                   isRunning, detections, segmentation, chains>>

\* App.setDetectMode, from a mode button or the M key; the second
\* variant's segmentation checkbox and M key write the same two fields
SetDetectMode ==
    /\ load = "ready"
    /\ QueueEmpty
    /\ \E m \in {"detection", "segmentation"} :
          /\ detector' = setMode(detector, m)
          /\ settings' = updateSettings(settings,
                             [segmentationMode |-> (m = "segmentation")])
    /\ trace' = AppStep
    /\ UNCHANGED <<presets, prevMask, canvas, video, load, isRunning,
                   detections, segmentation, chains>>

\* App.stopCamera
StopCamera ==
    /\ isRunning' = FALSE
    /\ video' = IF video.srcObject THEN NoVideo ELSE video
    /\ \E c \in {clear(settings, canvas)} :
          /\ canvas' = c
          /\ trace' = [AppStep EXCEPT !.op = "stopCamera", !.cleared = c]
    /\ chains' = [i \in 1..MaxChains |->
                     IF chains[i].pc \in {"coco", "seg"}
                     THEN [chains[i] EXCEPT !.stopped = TRUE]
                     ELSE chains[i]]
    /\ UNCHANGED <<settings, presets, prevMask, detector, load, detections,
                   segmentation>>

\* toggleCamera, had its listeners been installed whether or not the models
\* loaded
ToggleCameraAlwaysInstalled ==
    /\ QueueEmpty
    /\ IF isRunning
       THEN StopCamera
       ELSE /\ \E i \in 1..MaxChains :
                  /\ FreeSlot(i)
                  /\ chains' = [chains EXCEPT ![i].pc = "getUserMedia"]
            /\ trace' = AppStep
            /\ UNCHANGED <<settings, presets, prevMask, canvas, video,
                           detector, load, isRunning, detections,
                           segmentation>>

\* App.toggleCamera, from the start button or the space key:
\* stopCamera, or startCamera up to its await of getUserMedia
ToggleCamera ==
    /\ load = "ready"
    /\ QueueEmpty
    /\ IF isRunning
       THEN StopCamera
       ELSE /\ \E i \in 1..MaxChains :
                  /\ FreeSlot(i)
                  /\ chains' = [chains EXCEPT ![i].pc = "getUserMedia"]
            /\ trace' = AppStep
            /\ UNCHANGED <<settings, presets, prevMask, canvas, video,
                           detector, load, isRunning, detections,
                           segmentation>>

\* startCamera: getUserMedia resolved; up to the await of video.play
GetUserMediaOk(i) ==
    /\ chains[i].pc = "getUserMedia"
    /\ MayContinue(i)
    /\ video' = [NoVideo EXCEPT !.srcObject = TRUE]
    /\ chains' = Continued([chains EXCEPT ![i].pc = "play"], i)
    /\ trace' = AppStep
    /\ UNCHANGED <<settings, presets, prevMask, canvas, detector, load,
                   isRunning, detections, segmentation>>

\* startCamera: getUserMedia rejected; the catch block
GetUserMediaFail(i) ==
    /\ chains[i].pc = "getUserMedia"
    /\ MayContinue(i)
    /\ chains' = Continued([chains EXCEPT ![i] = IdleChain], i)
    /\ trace' = AppStep
    /\ UNCHANGED <<settings, presets, prevMask, canvas, video, detector,
                   load, isRunning, detections, segmentation>>

\* Detector.detect up to its first await, called by loop on the chain:
\* the chain afterwards
DetectCall(vid) ==
    [IdleChain EXCEPT !.pc = "coco", !.onFrame = vid.live]

\* startCamera: video.play resolved; through loop() up to the await in detect
PlayOk(i) ==
    /\ chains[i].pc = "play"
    /\ MayContinue(i)
    /\ video.srcObject
    /\ trace.detects < MaxDetects
    /\ video' = LiveVideo(1, 1)
    /\ isRunning' = TRUE
    /\ detector' = setMode(detector, "segmentation")
    /\ settings' = updateSettings(settings, [segmentationMode |-> TRUE])
    /\ chains' = Continued([chains EXCEPT ![i] = DetectCall(LiveVideo(1, 1))],
                           i)
    /\ trace' = [AppStep EXCEPT !.detects = @ + 1]
    /\ UNCHANGED <<presets, prevMask, canvas, load, detections, segmentation>>

\* startCamera: video.play rejected (the stream was replaced or removed
\* meanwhile); the catch block
PlayFail(i) ==
    /\ chains[i].pc = "play"
    /\ MayContinue(i)
    /\ chains' = Continued([chains EXCEPT ![i] = IdleChain], i)
    /\ trace' = AppStep
    /\ UNCHANGED <<settings, presets, prevMask, canvas, video, detector,
                   load, isRunning, detections, segmentation>>

\* detect returns its result: its promise is resolved and the rest of loop
\* queued behind the continuations that may be waiting already
DetectReturn(i, dets, seg) ==
    /\ chains' = Continued([chains EXCEPT
                               ![i].pc = "loop", ![i].dets = dets,
                               ![i].seg = seg, ![i].onFrame = FALSE,
                               ![i].ahead =
                                   {k \in 1..MaxChains \ {i} :
                                       chains[k].pc \in
                                           ExternalAwaits \cup {"loop"}}], i)
    /\ trace' = AppStep
    /\ UNCHANGED <<canvas, prevMask, detections, segmentation>>

\* detect: cocoModel.detect resolved; up to the await of segmentPerson, or
\* to the return
CocoDone(i) ==
    /\ chains[i].pc = "coco"
    /\ chains[i].onFrame
    /\ MayContinue(i)
    /\ \E predictions \in AppPredictions :
          \E filtered \in {FilterPredictions(detector, predictions)} :
              IF detector.mode = "segmentation" /\ detector.bodyPixModel
              THEN /\ chains' = Continued([chains EXCEPT
                                              ![i].pc = "seg",
                                              ![i].dets = filtered,
                                              ![i].onFrame = video.live], i)
                   /\ trace' = AppStep
                   /\ UNCHANGED <<canvas, prevMask, detections, segmentation>>
              ELSE DetectReturn(i, filtered, NullSeg)
    /\ UNCHANGED <<settings, presets, video, detector, load, isRunning>>

\* detect: cocoModel.detect rejected; the catch block returns the empty
\* result
CocoFail(i) ==
    /\ chains[i].pc = "coco"
    /\ MayContinue(i)
    /\ DetectReturn(i, {}, NullSeg)
    /\ UNCHANGED <<settings, presets, video, detector, load, isRunning>>

\* detect: segmentPerson resolved; the return
SegDone(i) ==
    /\ chains[i].pc = "seg"
    /\ chains[i].onFrame
    /\ MayContinue(i)
    /\ \E m \in Masks(1, 1) : DetectReturn(i, chains[i].dets, Seg(1, 1, m))
    /\ UNCHANGED <<settings, presets, video, detector, load, isRunning>>

\* detect: segmentPerson rejected; the catch block returns the empty result
SegFail(i) ==
    /\ chains[i].pc = "seg"
    /\ MayContinue(i)
    /\ DetectReturn(i, {}, NullSeg)
    /\ UNCHANGED <<settings, presets, video, detector, load, isRunning>>

\* the rest of loop after detect's promise resolved: the result is stored
\* and rendered and the next tick requested; a throw of render ends the
\* activity
FinishFrame(i, dets, seg) ==
    \E r \in {render(settings, prevMask, canvas, video,
                     UniformFrame(video.videoWidth, video.videoHeight),
                     {d.class : d \in dets}, seg)} :
        /\ detections' = dets
        /\ segmentation' = seg
        /\ canvas' = r.canvas
        /\ prevMask' = r.prevMask
        /\ chains' = Continued([chains EXCEPT ![i] =
                                   IF r.threw THEN IdleChain
                                   ELSE [IdleChain EXCEPT !.pc = "raf"]], i)
        /\ trace' = [trace EXCEPT !.op = "frame", !.threw = r.threw,
                                  !.ran = r.ran,
                                  !.stale = chains[i].stopped,
                                  !.scheduled = ~r.threw]

\* loop resumes from its await, once the loops that returned earlier have
\* resumed
LoopResume(i) ==
    /\ chains[i].pc = "loop"
    /\ \A k \in chains[i].ahead : chains[k].pc # "loop"
    /\ FinishFrame(i, chains[i].dets, chains[i].seg)
    /\ UNCHANGED <<settings, presets, video, detector, load, isRunning>>

\* the animation frame callback: loop up to the await in detect, or its
\* early return
Tick(i) ==
    /\ chains[i].pc = "raf"
    /\ QueueEmpty
    /\ IF isRunning
       THEN /\ trace.detects < MaxDetects
            /\ chains' = [chains EXCEPT ![i] = DetectCall(video)]
            /\ trace' = [AppStep EXCEPT !.detects = @ + 1]
       ELSE /\ chains' = [chains EXCEPT ![i] = IdleChain]
            /\ trace' = AppStep
    /\ UNCHANGED <<settings, presets, prevMask, canvas, video, detector,
                   load, isRunning, detections, segmentation>>

Next ==
    \/ LoadCocoOk
    \/ LoadBodyPixOk
    \/ LoadFail
    \/ SetDetectMode
    \/ ToggleCamera
    \/ \E i \in 1..MaxChains :
          \/ GetUserMediaOk(i)
          \/ GetUserMediaFail(i)
          \/ PlayOk(i)
          \/ PlayFail(i)
          \/ CocoDone(i)
          \/ CocoFail(i)
          \/ SegDone(i)
          \/ SegFail(i)
          \/ LoopResume(i)
          \/ Tick(i)

Spec == Init /\ [][Next]_vars

-----------------------------------------------------------------------------
(* SpecKeys: the keydown handler of either App variant, installed once the *)
(* models are loaded, with the camera stopped or running.  trace.dom holds *)
(* what the handler reads and writes in the document: the two checkboxes,  *)
(* the fullscreen element and the settings panel.                          *)

\* the values of e.key tried
Keys ==
    {"E", "e", "R", "r", "T", "t", "Z", "z", "U", "u", "I", "i", "O", "o",
     "M", "m", "B", "b", "F", "f", "S", "s", "a", "1", " ", "Escape"}

\* toUpperCase, had it returned its argument
ToUpperCaseIdentity(k) == k

\* String.prototype.toUpperCase on the values of Keys
ToUpperCase(k) ==
    CASE k = "e" -> "E" [] k = "r" -> "R" [] k = "t" -> "T" [] k = "z" -> "Z"
      [] k = "u" -> "U" [] k = "i" -> "I" [] k = "o" -> "O" [] k = "m" -> "M"
      [] k = "b" -> "B" [] k = "f" -> "F" [] k = "s" -> "S" [] k = "a" -> "A"
      [] k = "Escape" -> "ESCAPE"
      [] OTHER -> k

\* the keydown events: e.key, e.code, e.ctrlKey || e.metaKey, and whether
\* e.target is document.body
KeyEvents ==
    {[key |-> k, code |-> IF k = " " THEN "Space" ELSE "Other", mod |-> m,
      onBody |-> b] : k \in Keys, m \in BOOLEAN, b \in BOOLEAN}

\* handleKeyPress of the first variant but for its call of toggleCamera:
\* the settings, the detector and the document afterwards
handleKeyPress(s, ps, d, dom, e) ==
    LET key == ToUpperCase(e.key)
        s1 == IF key \in {"E", "R", "T", "Z", "U", "I", "O"}
              THEN applyPreset(s, ps, key).settings ELSE s
        full1 == IF e.key = "Escape" /\ dom.fullscreen THEN FALSE
                 ELSE dom.fullscreen
        full2 == IF key = "F" /\ ~e.mod THEN ~full1 ELSE full1
        toSeg == ~s1.segmentationMode
        onM == key = "M" /\ ~e.mod
        s2 == IF onM THEN updateSettings(s1, [segmentationMode |-> toSeg])
              ELSE s1
        onB == key = "B" /\ ~e.mod
        checked == IF onB THEN ~dom.bgChecked ELSE dom.bgChecked
        s3 == IF onB THEN updateSettings(s2, [bgReplace |-> checked]) ELSE s2
    IN  [settings |-> s3,
         detector |-> IF onM
                      THEN setMode(d, IF toSeg THEN "segmentation"
                                      ELSE "detection")
                      ELSE d,
         dom |-> [dom EXCEPT !.fullscreen = full2, !.bgChecked = checked]]

\* handleKeyPress of the second variant but for its call of toggleCamera
handleKeyPress2(s, ps, d, dom, e) ==
    LET key == ToUpperCase(e.key)
        s1 == IF key \in {"E", "R", "T", "Z", "U", "I", "O"}
              THEN applyPreset(s, ps, key).settings ELSE s
        full1 == IF e.key = "Escape" /\ dom.fullscreen THEN FALSE
                 ELSE dom.fullscreen
        panel == IF key = "S" /\ ~e.mod THEN ~dom.panel ELSE dom.panel
        full2 == IF key = "F" /\ ~e.mod THEN ~full1 ELSE full1
        onM == key = "M" /\ ~e.mod
        enabled == IF onM THEN ~dom.segChecked ELSE dom.segChecked
    IN  [settings |-> IF onM
                      THEN updateSettings(s1, [segmentationMode |-> enabled])
                      ELSE s1,
         detector |-> IF onM
                      THEN setMode(d, IF enabled THEN "segmentation"
                                      ELSE "detection")
                      ELSE d,
         dom |-> [dom EXCEPT !.fullscreen = full2, !.panel = panel,
                             !.segChecked = enabled]]

\* after App.init: the models are loaded and the handlers installed; the
\* camera is stopped or, after startCamera, running with a detect call
\* pending
KeysInit ==
    /\ \E v \in {1, 2}, running \in BOOLEAN :
          /\ settings =
                IF running
                THEN updateSettings(IF v = 1 THEN DefaultSettings
                                    ELSE DefaultSettings2,
                                    [segmentationMode |-> TRUE])
                ELSE IF v = 1 THEN DefaultSettings ELSE DefaultSettings2
          /\ detector =
                [NewDetector EXCEPT
                    !.cocoModel = TRUE, !.bodyPixModel = TRUE,
                    !.isReady = TRUE,
                    !.mode = IF running THEN "segmentation" ELSE "detection"]
          /\ isRunning = running
          /\ video = IF running THEN LiveVideo(1, 1) ELSE NoVideo
          /\ chains = IF running
                      THEN [NoChains EXCEPT ![1] = DetectCall(LiveVideo(1, 1))]
                      ELSE NoChains
          /\ trace = [NoTrace EXCEPT
                         !.variant = v,
                         !.dom.segChecked = (v = 2 /\ running)]
    /\ presets = PresetTable
    /\ prevMask = NullMask
    /\ canvas = BlankCanvas(0, 0)
    /\ load = "ready"
    /\ detections = {}
    /\ segmentation = NullSeg

\* a keydown other than the space key on the body
KeyPress ==
    /\ \E e \in KeyEvents :
          /\ ~(e.code = "Space" /\ e.onBody)
          /\ \E r \in {IF trace.variant = 1
                       THEN handleKeyPress(settings, presets, detector,
                                           trace.dom, e)
                       ELSE handleKeyPress2(settings, presets, detector,
                                            trace.dom, e)} :
                /\ settings' = r.settings
                /\ detector' = r.detector
                /\ trace' = [trace EXCEPT !.op = "keyPress", !.key = e.key,
                                          !.dom = r.dom]
    /\ UNCHANGED <<presets, prevMask, canvas, video, load, isRunning,
                   detections, segmentation, chains>>

\* the space key on the body runs toggleCamera, no other branch of the
\* handler matching " "
KeysNext == KeyPress \/ ToggleCamera

SpecKeys == KeysInit /\ [][KeysNext]_vars

-----------------------------------------------------------------------------
(* SpecDetect: one Detector, loaded or failing to load, reconfigured at    *)
(* any time, and one call of detect at a time with oracles that resolve or *)
(* reject; trace.settled tells how the promise of the last call settled.   *)

\* what detect resolves to before the models are loaded
NotReadyResult ==
    [settled |-> "resolved", detections |-> {}, segmentation |-> NullSeg]

\* the catch block of detect, had it thrown the error on
CatchResultRethrown ==
    [settled |-> "rejected", detections |-> {}, segmentation |-> NullSeg]

\* the catch block of detect
CatchResult ==
    [settled |-> "resolved", detections |-> {}, segmentation |-> NullSeg]

\* the promise of detect settles with r; used is what the filters and the
\* mode test of the call read from the detector
SettleUsing(r, cause, used) ==
    /\ detections' = r.detections
    /\ segmentation' = r.segmentation
    /\ chains' = [chains EXCEPT ![1] = IdleChain]
    /\ trace' = [trace EXCEPT !.op = "detect", !.settled = r.settled,
                              !.cause = cause, !.used = used]

Settle(r, cause) == SettleUsing(r, cause, trace.used)

\* the fields of the detector that detect reads after its first await
ReadByDetect(d) ==
    [confidence |-> d.confidence, personOnly |-> d.personOnly,
     mode |-> d.mode]

DetectInit ==
    /\ settings = DefaultSettings
    /\ presets = PresetTable
    /\ prevMask = NullMask
    /\ canvas = BlankCanvas(0, 0)
    /\ video = NoVideo
    /\ detector = NewDetector
    /\ load = "coco"
    /\ isRunning = FALSE
    /\ detections = {}
    /\ segmentation = NullSeg
    /\ chains = NoChains
    /\ trace = NoTrace

DetectSetMode ==
    /\ \E m \in {"detection", "segmentation"} : detector' = setMode(detector, m)
    /\ trace' = [trace EXCEPT !.op = "app"]
    /\ UNCHANGED <<settings, presets, prevMask, canvas, video, load,
                   isRunning, detections, segmentation, chains>>

DetectSetConfidence ==
    /\ \E value \in {-2, 5, 8, 13} :
          detector' = setConfidence(detector, value)
    /\ trace' = [trace EXCEPT !.op = "app"]
    /\ UNCHANGED <<settings, presets, prevMask, canvas, video, load,
                   isRunning, detections, segmentation, chains>>

DetectSetPersonOnly ==
    /\ \E enabled \in BOOLEAN : detector' = setPersonOnly(detector, enabled)
    /\ trace' = [trace EXCEPT !.op = "app"]
    /\ UNCHANGED <<settings, presets, prevMask, canvas, video, load,
                   isRunning, detections, segmentation, chains>>

\* detect up to its first await, or its early return
DetectStart ==
    /\ chains[1].pc = "idle"
    /\ IF ~detector.isReady \/ ~detector.cocoModel
       THEN Settle(NotReadyResult, "notReady")
       ELSE /\ chains' = [chains EXCEPT ![1].pc = "coco"]
            /\ trace' = [trace EXCEPT !.op = "app", !.settled = "none",
                                      !.cause = "none"]
            /\ UNCHANGED <<detections, segmentation>>
    /\ UNCHANGED <<settings, presets, prevMask, canvas, video, detector,
                   load, isRunning>>

\* cocoModel.detect resolved: the filters, then the await of segmentPerson
\* or the return
DetectCocoDone ==
    /\ chains[1].pc = "coco"
    /\ \E predictions \in AppPredictions :
          \E filtered \in {FilterPredictions(detector, predictions)} :
              IF detector.mode = "segmentation" /\ detector.bodyPixModel
              THEN /\ chains' = [chains EXCEPT ![1].pc = "seg",
                                               ![1].dets = filtered]
                   /\ trace' = [trace EXCEPT
                         !.op = "app", !.used = ReadByDetect(detector)]
                   /\ UNCHANGED <<detections, segmentation>>
              ELSE SettleUsing([settled |-> "resolved",
                                detections |-> filtered,
                                segmentation |-> NullSeg], "returned",
                               ReadByDetect(detector))
    /\ UNCHANGED <<settings, presets, prevMask, canvas, video, detector,
                   load, isRunning>>

\* cocoModel.detect rejected or threw
DetectCocoFail ==
    /\ chains[1].pc = "coco"
    /\ Settle(CatchResult, "cocoFailed")
    /\ UNCHANGED <<settings, presets, prevMask, canvas, video, detector,
                   load, isRunning>>

\* segmentPerson resolved
DetectSegDone ==
    /\ chains[1].pc = "seg"
    /\ \E m \in Masks(1, 1) :
          Settle([settled |-> "resolved", detections |-> chains[1].dets,
                  segmentation |-> Seg(1, 1, m)], "returned")
    /\ UNCHANGED <<settings, presets, prevMask, canvas, video, detector,
                   load, isRunning>>

\* segmentPerson rejected or threw
DetectSegFail ==
    /\ chains[1].pc = "seg"
    /\ Settle(CatchResult, "segFailed")
    /\ UNCHANGED <<settings, presets, prevMask, canvas, video, detector,
                   load, isRunning>>

DetectNext ==
    \/ LoadCocoOk \/ LoadBodyPixOk \/ LoadFail
    \/ DetectSetMode \/ DetectSetConfidence \/ DetectSetPersonOnly
    \/ DetectStart \/ DetectCocoDone \/ DetectCocoFail
    \/ DetectSegDone \/ DetectSegFail

SpecDetect == DetectInit /\ [][DetectNext]_vars

-----------------------------------------------------------------------------
(* The first variant's render over successive frames: SpecFrames.  The     *)
(* video is live at 1x1, frames differ in colour, and the segmentation     *)
(* argument is null, a mask, or an object without a data field.            *)

\* a segmentation object whose data field is missing
NoDataSeg == [kind |-> "nodata", width |-> 0, height |-> 0, data |-> <<>>]

\* the frames the video element can hold
FrameShots == {UniformFrame(1, 1), <<PatternFrame[2]>>}

FrameSegs == {NullSeg, NoDataSeg} \cup {Seg(1, 1, m) : m \in Masks(1, 1)}

FramePartials ==
    {[segmentationMode |-> b] : b \in BOOLEAN}
        \cup {[vizMode |-> v] : v \in {"fill", "outline", "both"}}

FrameInit ==
    /\ settings = DefaultSettings
    /\ presets = PresetTable
    /\ prevMask = NullMask
    /\ canvas = BlankCanvas(0, 0)
    /\ video = LiveVideo(1, 1)
    /\ detector = NewDetector
    /\ load = "coco"
    /\ isRunning = FALSE
    /\ detections = {}
    /\ segmentation = NullSeg
    /\ chains = NoChains
    /\ trace = NoTrace

FrameUpdateSettings ==
    \E p \in FramePartials :
        /\ settings' = updateSettings(settings, p)
        /\ trace' = [trace EXCEPT !.op = "updateSettings"]
        /\ UNCHANGED <<presets, prevMask, canvas, video, detector, load,
                       isRunning, detections, segmentation, chains>>

\* renderer.render(video, detections, segmentation) on a new frame
FrameRender ==
    /\ trace.frames < MaxFrames
    /\ \E frame \in FrameShots, dets \in {{"cup"}, {"person", "cup"}},
          seg \in FrameSegs :
        \E r \in {render(settings, prevMask, canvas, video, frame, dets,
                         seg)} :
            /\ canvas' = r.canvas
            /\ prevMask' = r.prevMask
            /\ trace' = [trace EXCEPT
                  !.op = "frameRender", !.frames = @ + 1, !.seg = seg,
                  !.frame = frame, !.dets = dets, !.prior = canvas,
                  !.threw = r.threw, !.ran = r.ran, !.mask = r.mask,
                  !.out = r.out, !.blended = r.blended]
    /\ UNCHANGED <<settings, presets, video, detector, load, isRunning,
                   detections, segmentation, chains>>

FrameNext == FrameUpdateSettings \/ FrameRender

SpecFrames == FrameInit /\ [][FrameNext]_vars

-----------------------------------------------------------------------------
(* Claims on the frame loop, checked under Spec *)

\* the chains with a loop iteration under way or a tick pending
LoopChains ==
    {i \in 1..MaxChains : chains[i].pc \in {"coco", "seg", "loop", "raf"}}

\* the chains inside startCamera
StartingChains ==
    {i \in 1..MaxChains : chains[i].pc \in {"getUserMedia", "play"}}

\* C1: frames never overlap: at most one loop chain exists at a time, so
\* never two detect calls in flight and never two pending ticks.
C1_FramesNeverOverlap == Cardinality(LoopChains) <= 1

\* C2: when a detect call that stopCamera overtook completes, render does
\* not throw and the canvas keeps the size and the pixels stopCamera left.
C2_ResultDiscardedAfterStop ==
    (trace.op = "frame" /\ trace.stale /\ ~isRunning) =>
        /\ ~trace.threw
        /\ canvas.width = trace.cleared.width
        /\ canvas.height = trace.cleared.height
        /\ canvas.px = trace.cleared.px

\* C3: once stopCamera has run and the camera is not started again, the
\* completion of a frame requests no further animation tick.
C3_NoTickAfterStop ==
    (trace.op = "frame" /\ trace.stale /\ ~isRunning /\ StartingChains = {})
        => ~trace.scheduled

-----------------------------------------------------------------------------
(* Claims on the mask history, checked under SpecMask *)

\* the last operation was a render whose drawSegmentation processed a mask
Processed ==
    /\ trace.op = "render"
    /\ trace.seg.kind = "mask"
    /\ settings.segmentationMode

\* C4: with smoothing = 0 the mask processing returns the incoming mask
\* unchanged, cell for cell, whatever the history was, and the history is
\* reset to the incoming mask.
C4_PassThrough ==
    (Processed /\ settings.smoothing = 0) =>
        /\ trace.mask = trace.seg.data
        /\ ~prevMask.isNull
        /\ Len(prevMask.data) = Len(trace.seg.data)
        /\ \A i \in 1..Len(trace.seg.data) :
              prevMask.data[i] = <<trace.seg.data[i], 1>>

\* a mask was processed with smoothing = 0 over a history of the same length
\* that held blended (fractional) cells
C4_Witness ==
    /\ Processed
    /\ settings.smoothing = 0
    /\ ~trace.oldPrev.isNull
    /\ Len(trace.oldPrev.data) = Len(trace.seg.data)
    /\ \E i \in 1..Len(trace.seg.data) : trace.oldPrev.data[i][2] # 1

\* C5: the history is reset, not blended, whenever the incoming mask's width
\* and height differ from those of the mask that produced the history, and
\* whenever the video resolution changed in between.
C5_ResetOnDimensionChange ==
    (Processed /\ trace.blended) =>
        /\ trace.prevDims = <<trace.seg.width, trace.seg.height>>
        /\ trace.prevVideo = <<video.videoWidth, video.videoHeight>>

-----------------------------------------------------------------------------
(* Claims on compositing, checked under SpecRender *)

\* the last operation was a render whose pixel loop ran
Composited == Processed /\ trace.ran

Pixels == 1..(canvas.width * canvas.height)

\* the mask cell pixel i reads, by floor-based nearest neighbour
CellOf(i) ==
    ((((i - 1) \div canvas.width) * trace.seg.height) \div canvas.height)
            * trace.seg.width
        + ((((i - 1) % canvas.width) * trace.seg.width) \div canvas.width) + 1

Segmented(i) == trace.mask[CellOf(i)] = 1

SourceAt(i) == trace.videoData[CellOf(i)]

Opaque(rgb) == <<rgb[1], rgb[2], rgb[3], 255>>

\* C6: the fillOpacity used in blending is within [0, 1] and the smoothing
\* used for the temporal factor and the blur iteration count is within
\* 0..10, whatever updateSettings and applyPreset were called with.
C6_ClampedBeforeUse ==
    Composited =>
        /\ settings.fillOpacity >= 0
        /\ settings.fillOpacity <= 10
        /\ settings.smoothing >= 0
        /\ settings.smoothing <= 10

\* C7: every pixel of the composited output buffer is written and has
\* alpha 255, for every settings combination and every mask.
C7_OutputOpaque ==
    Composited =>
        /\ Len(trace.out) = canvas.width * canvas.height
        /\ \A i \in Pixels : trace.out[i][4] = 255

\* background replacement in outline mode with an out-of-range opacity, over
\* a mask with segmented and non-segmented cells
C7_Witness ==
    /\ Composited
    /\ settings.bgReplace
    /\ settings.vizMode = "outline"
    /\ settings.fillOpacity = 15
    /\ \E i, j \in Pixels : Segmented(i) /\ ~Segmented(j)

\* C8 as stated: with bgReplace on and vizMode 'outline', after the
\* segmentation is drawn every canvas pixel of a segmented cell is the source
\* colour and every other pixel is bgColor.
C8_OutlineModeCanvas ==
    (Composited /\ settings.bgReplace /\ settings.vizMode = "outline") =>
        \A i \in Pixels :
            canvas.px[i] = IF Segmented(i) THEN Opaque(SourceAt(i))
                           ELSE Opaque(hexToRGB(settings.bgColor))

\* C8: with bgReplace on and vizMode 'outline', every pixel of the
\* composited buffer is the source colour on a segmented cell and bgColor
\* elsewhere; on the canvas the outline pass then repaints some pixels in
\* outlineColor, among them every pixel of a segmented cell that has a
\* non-segmented neighbour, and leaves the others as composited.
C8_OutlineModeBuffer ==
    (Composited /\ settings.bgReplace /\ settings.vizMode = "outline") =>
        \A i \in Pixels :
            /\ trace.out[i] = IF Segmented(i) THEN Opaque(SourceAt(i))
                              ELSE Opaque(hexToRGB(settings.bgColor))
            /\ canvas.px[i] \in
                  {trace.out[i], Opaque(hexToRGB(settings.outlineColor))}
            /\ (/\ Segmented(i)
                /\ \E j \in 1..Len(trace.mask) :
                      /\ trace.mask[j] = 0
                      /\ Abs(((j - 1) % trace.seg.width)
                                - ((CellOf(i) - 1) % trace.seg.width)) <= 1
                      /\ Abs(((j - 1) \div trace.seg.width)
                                - ((CellOf(i) - 1) \div trace.seg.width)) <= 1)
                  => canvas.px[i] = Opaque(hexToRGB(settings.outlineColor))

\* background replacement in outline mode over a mask with an edge, with
\* source, background and outline colours all different
C8_Witness ==
    /\ Composited
    /\ settings.bgReplace
    /\ settings.vizMode = "outline"
    /\ settings.bgColor = Blue600
    /\ settings.outlineColor = OrangeRed
    /\ \E i, j \in Pixels :
          /\ Segmented(i)
          /\ ~Segmented(j)
          /\ canvas.px[i] # trace.out[i]
          /\ canvas.px[j] = trace.out[j]

\* the example of C9: fillOpacity 0.5, fillColor #ffffff, bgReplace off,
\* vizMode 'fill', a segmented pixel whose source is (100, 100, 100)
C9_Example(i) ==
    /\ settings.fillOpacity = 5
    /\ settings.fillColor = White
    /\ ~settings.bgReplace
    /\ settings.vizMode = "fill"
    /\ Segmented(i)
    /\ SourceAt(i) = Gray100

\* src * (1 - fillOpacity) + fill * fillOpacity, in tenths
Lerp10(i, c) ==
    SourceAt(i)[c] * (10 - settings.fillOpacity)
        + hexToRGB(settings.fillColor)[c] * settings.fillOpacity

\* C9 as stated: a segmented pixel under a vizMode with fill has every
\* channel equal to src * (1 - fillOpacity) + fill * fillOpacity rounded to
\* a nearest integer, the example yields (177, 177, 177), and with bgReplace
\* off every other pixel is the source colour.
C9_LerpExample177 ==
    Composited =>
        \A i \in Pixels :
            /\ (Segmented(i) /\ FillsOn(settings)) =>
                  \A c \in 1..3 :
                      Abs(10 * trace.out[i][c] - Lerp10(i, c)) <= 5
            /\ C9_Example(i) => trace.out[i] = <<177, 177, 177, 255>>
            /\ (~settings.bgReplace /\ ~(Segmented(i) /\ FillsOn(settings)))
                  => trace.out[i] = Opaque(SourceAt(i))

\* fillOpacity 0.3 (preset R), fillColor #ff0000, vizMode 'fill', a segmented
\* pixel whose source is (100, 15, 45)
C9_Inexact(i) ==
    /\ settings.fillOpacity = 3
    /\ settings.fillColor = Red
    /\ FillsOn(settings)
    /\ Segmented(i)
    /\ SourceAt(i) = <<100, 15, 45>>

\* C9: a segmented pixel under a vizMode with fill has every channel equal
\* to src * (1 - fillOpacity) + fill * fillOpacity clamped to 0..255 and
\* rounded to a nearest integer; a value halfway between two integers goes
\* to the even one when fillOpacity is a multiple of 0.5 (the arithmetic is
\* then exact) and to either neighbour otherwise, as the double-precision
\* result falls: the example yields (178, 178, 178), and (100, 15, 45)
\* under #ff0000 at 0.3 yields (146, 10, 31), 31.5 being computed as
\* 31.499999999999996; and with bgReplace off every other pixel is the
\* source colour.
C9_LerpClampedRounded ==
    Composited =>
        \A i \in Pixels :
            /\ (Segmented(i) /\ FillsOn(settings)) =>
                  \A c \in 1..3 :
                      LET n == Lerp10(i, c)
                          o == trace.out[i][c]
                      IN  /\ o \in 0..255
                          /\ n <= 0 => o = 0
                          /\ n >= 2550 => o = 255
                          /\ (n > 0 /\ n < 2550) =>
                                /\ Abs(10 * o - n) <= 5
                                /\ (/\ Abs(10 * o - n) = 5
                                    /\ settings.fillOpacity % 5 = 0)
                                      => o % 2 = 0
            /\ C9_Example(i) => trace.out[i] = <<178, 178, 178, 255>>
            /\ C9_Inexact(i) => trace.out[i] = <<146, 10, 31, 255>>
            /\ (~settings.bgReplace /\ ~(Segmented(i) /\ FillsOn(settings)))
                  => trace.out[i] = Opaque(SourceAt(i))

\* the example of C9 was rendered, next to a pixel left as the source
C9_Witness ==
    /\ Composited
    /\ \E i, j \in Pixels :
          /\ C9_Example(i)
          /\ ~Segmented(j)
          /\ trace.out[j] = Opaque(SourceAt(j))

-----------------------------------------------------------------------------
(* Claims on the settings, checked under SpecSettings *)

PresetFields ==
    {"fillColor", "outlineColor", "fillOpacity", "outlineThickness", "vizMode"}

\* C10: applyPreset(key) for a key of the preset table overwrites exactly
\* the preset's fields with the preset's values, leaves every other settings
\* field and the preset table unchanged and returns the applied fields;
\* applyPreset('E') on vizMode 'outline', fillOpacity 0.9 gives 'both', 0.4.
C10_PresetMerge ==
    (trace.op = "applyPreset" /\ trace.key \in DOMAIN PresetTable) =>
        /\ DOMAIN PresetTable[trace.key] = PresetFields
        /\ DOMAIN settings = DOMAIN trace.before
        /\ \A f \in PresetFields : settings[f] = PresetTable[trace.key][f]
        /\ \A f \in (DOMAIN trace.before) \ PresetFields :
              settings[f] = trace.before[f]
        /\ presets = PresetTable
        /\ trace.ret = PresetTable[trace.key]
        /\ (/\ trace.key = "E"
            /\ trace.before.vizMode = "outline"
            /\ trace.before.fillOpacity = 9)
              => settings.vizMode = "both" /\ settings.fillOpacity = 4

\* preset E was applied over vizMode 'outline', fillOpacity 0.9 and other
\* fields off their defaults
C10_Witness ==
    /\ trace.op = "applyPreset"
    /\ trace.key = "E"
    /\ trace.before.vizMode = "outline"
    /\ trace.before.fillOpacity = 9
    /\ "showBox" \in DOMAIN trace.before
    /\ trace.before.boxScale = 15
    /\ trace.before.colorMode = "position"
    /\ settings.vizMode = "both"
    /\ settings.fillOpacity = 4

\* C11: updateSettings(partial) sets exactly the keys of partial to the
\* given values and leaves every other settings key at its prior value, in
\* the one settings record the renderer reads.
C11_PartialMerge ==
    trace.op = "updateSettings" =>
        /\ DOMAIN settings = (DOMAIN trace.before) \cup (DOMAIN trace.partial)
        /\ \A f \in DOMAIN trace.partial : settings[f] = trace.partial[f]
        /\ \A f \in (DOMAIN trace.before) \ (DOMAIN trace.partial) :
              settings[f] = trace.before[f]

\* a partial of two keys was merged into settings that a preset and earlier
\* partials had moved off the defaults
C11_Witness ==
    /\ trace.op = "updateSettings"
    /\ trace.partial = [showLabels |-> FALSE, segmentationMode |-> FALSE]
    /\ trace.before.showLabels
    /\ trace.before.fillColor = Magenta
    /\ trace.before.fillOpacity = 9
    /\ settings.fillColor = Magenta
    /\ settings.fillOpacity = 9
    /\ ~settings.showLabels

-----------------------------------------------------------------------------
(* Claims on the detection boxes, checked under SpecBoxes *)

\* the configured boxScale, in tenths (1.0 where none is configured)
ConfiguredScale ==
    IF "boxScale" \in DOMAIN settings THEN settings.boxScale ELSE 10

\* C12: every box drawn for a detection has boxScale times the width and
\* height of the bbox and the centre of the bbox, in every renderer.
C12_ScaledAboutCentre ==
    trace.op = "boxes" =>
        \A c \in trace.calls :
            c.kind \in {"fill", "outline"} =>
                \E det \in trace.dets :
                    /\ det.class = c.class
                    /\ 10 * c.box[3] = ConfiguredScale * 20 * det.bbox[3]
                    /\ 10 * c.box[4] = ConfiguredScale * 20 * det.bbox[4]
                    /\ 2 * c.box[1] + c.box[3]
                          = 40 * det.bbox[1] + 20 * det.bbox[3]
                    /\ 2 * c.box[2] + c.box[4]
                          = 40 * det.bbox[2] + 20 * det.bbox[4]


-----------------------------------------------------------------------------
(* Claims on the outline tracer, checked under SpecOutline.                *)

OutlineDrawn == trace.op = "outline"

\* the outline colour as an opaque pixel
OutlineRGBA ==
    LET c == hexToRGB(settings.outlineColor) IN <<c[1], c[2], c[3], 255>>

MaskCells == 1..(trace.seg.width * trace.seg.height)

\* cell e is 1 and a cell of the mask at most one column and one row away is 0
RuleEdge(e) ==
    /\ trace.seg.data[e] = 1
    /\ \E j \in MaskCells :
          /\ trace.seg.data[j] = 0
          /\ Abs(((j - 1) % trace.seg.width) - ((e - 1) % trace.seg.width)) <= 1
          /\ Abs(((j - 1) \div trace.seg.width)
                    - ((e - 1) \div trace.seg.width)) <= 1

\* canvas pixels per mask cell along one axis
OutlineScale == canvas.width \div trace.seg.width

\* pixel p lies in the region painted for edge cell e: the cell itself in the
\* mask image, the rectangle of side max(scale, thickness) on the canvas
PaintedFor(e, p) ==
    IF trace.variant = 2 THEN p = e
    ELSE LET side == Max(OutlineScale, settings.outlineThickness)
             left == ((e - 1) % trace.seg.width) * OutlineScale
             top == ((e - 1) \div trace.seg.width) * OutlineScale
             X == (p - 1) % canvas.width
             Y == (p - 1) \div canvas.width
         IN  /\ left <= X /\ X < left + side
             /\ top <= Y /\ Y < top + side

\* the mask cell canvas pixel p lies under
CellUnder(p) ==
    IF trace.variant = 2 THEN p
    ELSE (((p - 1) \div canvas.width) \div OutlineScale) * trace.seg.width
             + ((p - 1) % canvas.width) \div OutlineScale + 1

\* no pixel under a 0 cell has the outline colour
ZeroCellsUnpainted ==
    \A p \in DOMAIN canvas.px :
        trace.seg.data[CellUnder(p)] = 0 => canvas.px[p] # OutlineRGBA

\* a pixel has the outline colour exactly when an outline mode is on and it
\* lies in the region painted for a cell that is 1 and has a 0 among its
\* in-bounds neighbours
EdgeRegionsPainted ==
    \A p \in DOMAIN canvas.px :
        canvas.px[p] = OutlineRGBA <=>
            /\ OutlinesOn(settings)
            /\ \E e \in MaskCells : RuleEdge(e) /\ PaintedFor(e, p)

\* an all-1 mask paints nothing in the outline colour
AllOnesUnpainted ==
    (\A j \in MaskCells : trace.seg.data[j] = 1) =>
        \A p \in DOMAIN canvas.px : canvas.px[p] # OutlineRGBA

\* C13 as stated: a cell is an edge exactly when it is 1 and has a 0 among
\* its in-bounds neighbours, an all-1 mask produces no edge, and a 0 cell is
\* never painted
C13_ZeroCellNeverPainted ==
    OutlineDrawn =>
        /\ EdgeRegionsPainted
        /\ AllOnesUnpainted
        /\ ZeroCellsUnpainted

\* C13: a region is painted exactly for the cells that are 1 and have a 0
\* among their in-bounds neighbours, so none is painted for a 0 cell and an
\* all-1 mask paints nothing.  The region of a cell is the cell itself in the
\* second variant, where a 0 cell is never painted, and a rectangle of side
\* max(scale, outlineThickness) at the cell's corner in the first, where a 0
\* cell is never painted while outlineThickness is at most the scale
C13_EdgeRule ==
    OutlineDrawn =>
        /\ EdgeRegionsPainted
        /\ AllOnesUnpainted
        /\ (trace.variant = 2 \/ settings.outlineThickness <= OutlineScale)
              => ZeroCellsUnpainted

\* a 3x3 mask with one 1 in the corner, traced at thickness 3 on a canvas of
\* the mask's size: the corner is an edge and its rectangle covers the canvas
C13_Witness ==
    /\ OutlineDrawn
    /\ trace.variant = 1
    /\ settings.vizMode = "both"
    /\ settings.outlineThickness = 3
    /\ trace.seg = Seg(3, 3, <<1, 0, 0, 0, 0, 0, 0, 0, 0>>)
    /\ canvas.width = 3
    /\ RuleEdge(1)
    /\ canvas.px[1] = OutlineRGBA
    /\ trace.seg.data[CellUnder(9)] = 0
    /\ canvas.px[9] = OutlineRGBA


-----------------------------------------------------------------------------
(* Further claims on the detection boxes, checked under SpecBoxes.         *)

\* the kinds of drawing made for the detection det in the last render
KindsFor(det) == {c.kind : c \in {d \in trace.calls : d.class = det.class}}

\* C14: with segmentationMode on, a person gets no box fill and no box
\* outline, with or without a mask for the frame, and gets its label exactly
\* when showLabels is on; every other detection gets fill and outline as
\* vizMode says
C14_PersonBoxSkipped ==
    trace.op = "boxes" =>
        \A det \in trace.dets :
            IF settings.segmentationMode /\ det.class = "person"
            THEN /\ "fill" \notin KindsFor(det)
                 /\ "outline" \notin KindsFor(det)
                 /\ ("label" \in KindsFor(det)) <=> settings.showLabels
            ELSE /\ ("fill" \in KindsFor(det)) <=> FillsOn(settings)
                 /\ ("outline" \in KindsFor(det)) <=> OutlinesOn(settings)


-----------------------------------------------------------------------------
(* Claims on Detector.detect, checked under SpecDetect.                    *)

\* C15: the promise of detect is never rejected, and a call made before the
\* models are loaded, or one whose detection or segmentation oracle fails,
\* resolves to the empty result
C15_DetectNeverRejects ==
    /\ trace.settled # "rejected"
    /\ trace.cause \in {"notReady", "cocoFailed", "segFailed"} =>
          /\ trace.settled = "resolved"
          /\ detections = {}
          /\ segmentation = NullSeg

\* the three cases have all happened: here the segmentation oracle failed on
\* a loaded detector in segmentation mode
C15_Witness ==
    /\ trace.op = "detect"
    /\ trace.cause = "segFailed"
    /\ detector.isReady
    /\ detector.mode = "segmentation"
    /\ trace.settled = "resolved"
    /\ detections = {}


-----------------------------------------------------------------------------
(* Claims on temporal smoothing of a constant stream, checked under        *)
(* SpecStream.                                                             *)

Streaming == trace.op = "stream"

\* the history cell p binarized at 1/2
Binarized(data) == [i \in 1..Len(data) |-> IF GtHalf(data[i]) THEN 1 ELSE 0]

\* C16, as stated: for every smoothing from 0 to 10 and every history, the
\* output of smoothMask on a constant stream M is M after finitely many
\* frames, here the seven that the slowest converging blend needs
C16_ConvergesEverySmoothing ==
    (Streaming /\ trace.frames >= 7) => trace.out = trace.mask

\* C16, amended: for every smoothing from 0 to 9 and every history the output
\* is M from the seventh frame of the stream at the latest, and an output
\* equal to M stays equal to M on the next frame; at smoothing 10 the blend
\* returns the history unchanged, so the output is the binarized history on
\* every frame
C16_ConvergesBelowTen ==
    /\ [](/\ (Streaming /\ settings.smoothing <= 9
                 /\ trace.frames >= 7) => trace.out = trace.mask
          /\ (Streaming /\ settings.smoothing = 10 /\ trace.blended) =>
                /\ prevMask = trace.oldPrev
                /\ trace.out = Binarized(trace.oldPrev.data))
    /\ [][(Streaming /\ trace.out = trace.mask) =>
              trace'.out = trace'.mask]_vars

\* smoothing 9 on the sixth and seventh frame of a stream of 1s over a
\* history of 0s: the first cell is still 0, then 1
C16_Witness ==
    /\ Streaming
    /\ settings.smoothing = 9
    /\ trace.frames = 7
    /\ trace.mask = <<1, 0>>
    /\ trace.blended
    /\ ~GtHalf(trace.oldPrev.data[1])
    /\ trace.out = <<1, 0>>

-----------------------------------------------------------------------------
(* Claims on the spatial filter, checked under SpecBlur.                   *)

\* the number of 1 cells
Ones(data) == Cardinality({i \in 1..Len(data) : data[i] = 1})

\* the given mask has a single positive cell, with negatives around it
SinglePositive == Ones(segmentation.data) = 1

\* C17: for a mask with a single positive cell, the number of 1 cells in the
\* output of blurMask is at most that of the mask and does not grow when the
\* iteration count grows by one
C17_IsolatedCellShrinks ==
    /\ [](trace.op = "blur" /\ SinglePositive =>
              Ones(trace.out) <= Ones(segmentation.data))
    /\ [][trace.op = "blur" /\ SinglePositive =>
              Ones(trace'.out) <= Ones(trace.out)]_vars

\* two iterations over a 3x3 mask whose only 1 is in a corner
C17_Witness ==
    /\ trace.op = "blur"
    /\ trace.iterations = 2
    /\ segmentation = Seg(3, 3, <<1, 0, 0, 0, 0, 0, 0, 0, 0>>)
    /\ Ones(trace.out) = 0


-----------------------------------------------------------------------------
(* Claims on the keyboard shortcuts, checked under SpecKeys.               *)

\* the preset letters in either case
PresetLetters ==
    {"E", "e", "R", "r", "T", "t", "Z", "z", "U", "u", "I", "i", "O", "o"}

\* the preset a letter names
PresetNameOf(k) ==
    CASE k \in {"E", "e"} -> "E" [] k \in {"R", "r"} -> "R"
      [] k \in {"T", "t"} -> "T" [] k \in {"Z", "z"} -> "Z"
      [] k \in {"U", "u"} -> "U" [] k \in {"I", "i"} -> "I"
      [] k \in {"O", "o"} -> "O"

\* the last step was a press of a preset letter
PresetPressed == trace.op = "keyPress" /\ trace.key \in PresetLetters

\* a press of a preset letter leaves the settings outside the five preset
\* fields as they were; any other step leaves the five fields as they were
PresetKeyStep ==
    IF PresetPressed'
    THEN /\ DOMAIN settings' = DOMAIN settings
         /\ \A f \in (DOMAIN settings) \ PresetFields :
               settings'[f] = settings[f]
    ELSE \A f \in PresetFields : settings'[f] = settings[f]

\* C18: after a press of E, R, T, Z, U, I or O in either case the five preset
\* fields of the settings are those of the preset of that name, the other
\* settings being left as they were; no other key press, the space key
\* included, changes any of the five fields
C18_PresetKeys ==
    /\ [](PresetPressed =>
              \A f \in PresetFields :
                  settings[f] = PresetTable[PresetNameOf(trace.key)][f])
    /\ [][PresetKeyStep]_vars

\* a lower-case z pressed on the second variant after another preset
C18_Witness ==
    /\ trace.op = "keyPress"
    /\ trace.key = "z"
    /\ trace.variant = 2
    /\ settings.fillColor = Magenta
    /\ settings.outlineColor = Cyan
    /\ settings.fillOpacity = 5
    /\ settings.outlineThickness = 3
    /\ settings.vizMode = "both"
    /\ settings.boxScale = 10


-----------------------------------------------------------------------------
(* Claims on the temporal blend, checked under SpecStream.                 *)

\* ten times the denominator of history cell i before the call, and the
\* numerator over it of prev * smoothing/10 + current * (1 - smoothing/10)
BlendDen(i) == 10 * trace.oldPrev.data[i][2]

BlendNum(i) ==
    trace.oldPrev.data[i][1] * settings.smoothing
        + trace.mask[i] * (10 - settings.smoothing) * trace.oldPrev.data[i][2]

\* C19: when the blend is taken, each output cell is 1 exactly when
\* prev * smoothing/10 + current * (1 - smoothing/10) exceeds 0.5, a blend of
\* exactly 0.5 giving 0, and the history keeps that blended value itself;
\* every output is a mask of 0s and 1s as long as the input
C19_BlendThreshold ==
    Streaming =>
        /\ Len(trace.out) = Len(trace.mask)
        /\ \A i \in 1..Len(trace.out) : trace.out[i] \in {0, 1}
        /\ trace.blended <=>
              /\ settings.smoothing > 0
              /\ ~trace.oldPrev.isNull
              /\ Len(trace.oldPrev.data) = Len(trace.mask)
        /\ trace.blended =>
              /\ \A i \in 1..Len(trace.mask) :
                    /\ trace.out[i] = 1 <=> 2 * BlendNum(i) > BlendDen(i)
                    /\ prevMask.data[i] = Rat(BlendNum(i), BlendDen(i))

\* smoothing 5 over a history cell of 0 and a current cell of 1: the blend
\* is exactly 0.5, the output 0 and the history 1/2
C19_Witness ==
    /\ Streaming
    /\ trace.blended
    /\ settings.smoothing = 5
    /\ trace.oldPrev.data[1] = Rat(0, 1)
    /\ trace.mask[1] = 1
    /\ trace.out[1] = 0
    /\ prevMask.data[1] = Rat(1, 2)


-----------------------------------------------------------------------------
(* Claims on the coordinate mapping, checked under SpecMap.                *)

\* the cell floor(x / (canvasDim / maskDim)) names, computed in doubles: the
\* cell that holds x * maskDim / canvasDim, or, when that quotient is a whole
\* number that the double division falls just short of, the cell before it
DoubleFloor(m, x, canvasDim, maskDim) ==
    /\ m * canvasDim <= x * maskDim
    /\ x * maskDim < (m + 2) * canvasDim
    /\ (x * maskDim) % canvasDim # 0 => x * maskDim < (m + 1) * canvasDim

\* C20: for a mask no larger than the canvas on either axis, every output
\* pixel maps to maskX = floor(x / (canvasWidth / maskWidth)) and
\* maskY = floor(y / (canvasHeight / maskHeight)), each axis by its own
\* scale, with 0 <= maskX < maskWidth and 0 <= maskY < maskHeight, so the
\* cell read lies inside the mask and the source frame
C20_MaskReadInBounds ==
    (/\ trace.op = "map"
     /\ segmentation.width <= canvas.width
     /\ segmentation.height <= canvas.height) =>
        /\ 0 <= trace.map.maskX /\ trace.map.maskX < segmentation.width
        /\ 0 <= trace.map.maskY /\ trace.map.maskY < segmentation.height
        /\ DoubleFloor(trace.map.maskX, trace.map.x, canvas.width,
                       segmentation.width)
        /\ DoubleFloor(trace.map.maskY, trace.map.y, canvas.height,
                       segmentation.height)
        /\ trace.map.maskIdx
              = trace.map.maskY * segmentation.width + trace.map.maskX + 1
        /\ trace.map.maskIdx \in 1..Len(segmentation.data)

\* pixel (9, 2) of an 18x3 canvas over a 14x2 mask: 9 / (18 / 14) is
\* 6.999999999999999 in doubles, so cell 6 of the row is read, not cell 7
C20_Witness ==
    /\ trace.op = "map"
    /\ canvas.width = 18 /\ canvas.height = 3
    /\ segmentation.width = 14 /\ segmentation.height = 2
    /\ trace.map.x = 9 /\ trace.map.y = 2
    /\ trace.map.maskX = 6 /\ trace.map.maskY = 1
    /\ trace.map.maskIdx = 21


-----------------------------------------------------------------------------
(* Claims on the spatial stage, checked under SpecSpatial.                 *)

\* the mean of the cells of data at most one column and one row away from
\* cell i, over their number
MeanAround(data, width, i) ==
    LET near == {j \in 1..Len(data) :
                    /\ Abs(((j - 1) % width) - ((i - 1) % width)) <= 1
                    /\ Abs(((j - 1) \div width) - ((i - 1) \div width)) <= 1}
    IN  RatMul(RatSumOver(data, near), Rat(1, Cardinality(near)))

\* k passes of that mean over data, nothing rounded in between
RECURSIVE MeanFilter(_, _, _)
MeanFilter(data, width, k) ==
    IF k = 0 THEN data
    ELSE MeanFilter([i \in 1..Len(data) |-> MeanAround(data, width, i)],
                    width, k - 1)

\* C21: the spatial stage returns the mask unchanged when floor(smoothing/3)
\* is 0, and otherwise the result of exactly floor(smoothing/3) passes of the
\* mean over the in-bounds neighbours, binarized at 0.5 once after the last
C21_SpatialIterations ==
    trace.op = "process" =>
        IF settings.smoothing \in {0, 1, 2}
        THEN trace.out = segmentation.data
        ELSE trace.out =
                 Binarized(MeanFilter(ToFloats(segmentation.data),
                                      segmentation.width,
                                      settings.smoothing \div 3))

\* one pass (smoothing 4) over a 3x3 mask with a 2x2 block of 1s in the
\* corner: corner mean 4/4, border means 4/6 and 2/4, centre mean 4/9
C21_Witness ==
    /\ trace.op = "process"
    /\ settings.smoothing = 4
    /\ segmentation = Seg(3, 3, <<1, 1, 0, 1, 1, 0, 0, 0, 0>>)
    /\ trace.out = <<1, 1, 0, 1, 0, 0, 0, 0, 0>>


-----------------------------------------------------------------------------
(* Claims on the box colours, checked under SpecColors.                    *)

\* the detection of the last render that a paint belongs to
DetOf(p) ==
    CHOOSE d \in {trace.detList[i] : i \in 1..Len(trace.detList)} :
        d.class = p.class

\* the colour the centre of a detection's drawn box gives: hue
\* 360 * centerX / canvasWidth, saturation 70 + 30 * centerY / canvasHeight;
\* scaling about the centre leaves the centre where it is
CentreColour(det) ==
    [css |-> "hsl",
     hue |-> Rat((2 * det.bbox[1] + det.bbox[3]) * 360, 2 * canvas.width),
     sat |-> RatAdd(Rat(70, 1),
                    Rat((2 * det.bbox[2] + det.bbox[4]) * 30,
                        2 * canvas.height))]

\* C22: a box is filled, at fillOpacity, and outlined in the colour of its
\* centre in colorMode 'position' and in the configured fillColor and
\* outlineColor in colorMode 'fixed'
C22_BoxColours ==
    trace.op = "colors" =>
        \A i \in 1..Len(trace.paints) :
            LET p == trace.paints[i]
            IN  /\ p.kind = "outline" =>
                      p.style = IF settings.colorMode = "position"
                                THEN CentreColour(DetOf(p))
                                ELSE HexText(settings.outlineColor)
                /\ p.kind = "fill" =>
                      IF settings.colorMode = "position"
                      THEN /\ p.style.css = "hsl"
                           /\ p.style.hue = CentreColour(DetOf(p)).hue
                           /\ p.style.sat = CentreColour(DetOf(p)).sat
                      ELSE p.style = [css |-> "rgba",
                                      rgb |-> hexToRGB(settings.fillColor),
                                      alpha |-> settings.fillOpacity]

-----------------------------------------------------------------------------
(* Claims on successive frames, checked under SpecFrames.                  *)

\* the pixels drawImage leaves for a frame
OpaqueFrame(frame) == [i \in 1..Len(frame) |-> Opaque(frame[i])]

\* the render call had no mask to composite: null, or segmentation mode off
NoMaskCase == trace.seg.kind = "null" \/ ~settings.segmentationMode

\* the raw frame is on the canvas with a box for every detection
RawWithBoxes ==
    /\ canvas.px = OpaqueFrame(trace.frame)
    /\ \A c \in trace.dets : drawDetection(settings, c) \subseteq canvas.over

\* the canvas the render call started from, after its resize step
PriorCanvas ==
    IF trace.prior.width # video.videoWidth
           \/ trace.prior.height # video.videoHeight
    THEN BlankCanvas(video.videoWidth, video.videoHeight)
    ELSE trace.prior

\* C23 as stated: every render call paints the current frame: the raw
\* frame with a box for every detection, persons included, when there is
\* no mask or segmentation mode is off, and the composite of the current
\* frame whenever a mask object is passed in segmentation mode, a mask
\* object without data included.
C23_EveryFramePainted ==
    trace.op = "frameRender" =>
        /\ ~trace.threw
        /\ NoMaskCase => RawWithBoxes
        /\ ~NoMaskCase => trace.ran

\* C23 amended: the same, except that a mask object without data in
\* segmentation mode makes the call draw no frame: the canvas keeps the
\* pixels it had (the previous frame's, or none after a resize), and only
\* the detection loop draws over them, a person getting its label alone.
C23_FramePaintedUnlessNoData ==
    trace.op = "frameRender" =>
        /\ ~trace.threw
        /\ NoMaskCase => RawWithBoxes
        /\ (~NoMaskCase /\ trace.seg.kind = "mask") => trace.ran
        /\ (~NoMaskCase /\ trace.seg.kind = "nodata") =>
              /\ ~trace.ran
              /\ canvas.px = PriorCanvas.px
              /\ canvas.over =
                    PriorCanvas.over
                        \cup UNION {IF c = "person"
                                    THEN drawDetection(settings, c)
                                             \cap {<<"label", c>>}
                                    ELSE drawDetection(settings, c) :
                                    c \in trace.dets}

\* a data-less mask in segmentation mode left the previous, differently
\* coloured frame on the canvas
C23_Witness ==
    /\ trace.op = "frameRender"
    /\ trace.seg.kind = "nodata"
    /\ settings.segmentationMode
    /\ trace.frame = <<PatternFrame[2]>>
    /\ canvas.px = OpaqueFrame(UniformFrame(1, 1))
    /\ "person" \in trace.dets

-----------------------------------------------------------------------------
(* Claims on the detection mode, checked under Spec.                       *)

\* the detector's mode and the renderer's flag say the same
ModesAgree == (detector.mode = "segmentation") <=> settings.segmentationMode

\* C24: while the camera loop runs, and whenever a detect call is in flight,
\* a tick is pending or a frame was just rendered, the detector's mode is
\* 'segmentation' exactly when the renderer's segmentationMode is true; the
\* mismatch of the constructors' defaults is gone before any such call.
C24_ModesAgree ==
    (isRunning \/ LoopChains # {} \/ trace.op = "frame") => ModesAgree

\* a frame rendered while running after a switch to detection mode
C24_Witness ==
    /\ isRunning
    /\ trace.op = "frame"
    /\ detector.mode = "detection"
    /\ ~settings.segmentationMode


\* C25: while segmentationMode is off, as setDetectMode('detection') leaves
\* it until the mode is switched back on, no render composites a mask, even
\* when the detect call had started in segmentation mode and returns one:
\* the frame is the raw video with a box for every detection.
C25_NoMaskInDetectionMode ==
    (trace.op = "frame" /\ ~settings.segmentationMode) =>
        /\ ~trace.ran
        /\ ~trace.threw
        /\ video.live =>
              /\ canvas.px =
                    OpaqueFrame(UniformFrame(video.videoWidth,
                                             video.videoHeight))
              /\ \A d \in detections :
                    drawDetection(settings, d.class) \subseteq canvas.over

\* a mask came back for a frame rendered after the switch to detection mode
C25_Witness ==
    /\ trace.op = "frame"
    /\ ~settings.segmentationMode
    /\ segmentation.kind = "mask"
    /\ video.live
    /\ \E d \in detections : d.class = "person"
    /\ <<"fill", "person">> \in canvas.over

-----------------------------------------------------------------------------
(* Further claims on the presets, checked under SpecSettings.              *)

\* settings s with the five preset fields set to preset k's values
WithPreset(s, k) ==
    [f \in DOMAIN s |->
        IF f \in PresetFields THEN PresetTable[k][f] ELSE s[f]]

\* applyPreset(k) straight after applyPreset(j), both keys in the table:
\* the result is what applyPreset(k) alone gives on the settings before j,
\* and nothing changes when k = j
PresetPairStep ==
    (/\ trace.op = "applyPreset" /\ trace.key \in DOMAIN PresetTable
     /\ trace'.op = "applyPreset" /\ trace'.key \in DOMAIN PresetTable
     /\ trace'.before = settings)
        => /\ settings' = WithPreset(trace.before, trace'.key)
           /\ (trace'.key = trace.key => settings' = settings)

\* C26: every preset lists the same five fields; after applyPreset(k) for a
\* key of the table those five fields hold preset k's values whatever calls
\* came before; applyPreset(k) is idempotent, and applyPreset(j) followed by
\* applyPreset(k) gives what applyPreset(k) alone gives.
C26_PresetLastWins ==
    /\ [](/\ \A k \in DOMAIN presets : DOMAIN presets[k] = PresetFields
          /\ (trace.op = "applyPreset" /\ trace.key \in DOMAIN presets) =>
                /\ \A f \in PresetFields : settings[f] = presets[trace.key][f]
                /\ applyPreset(settings, presets, trace.key).settings
                       = settings)
    /\ [][PresetPairStep]_vars

\* preset Z was applied straight after preset R on settings that partial
\* updates had moved off the defaults
C26_Witness ==
    /\ trace.op = "applyPreset"
    /\ trace.key = "Z"
    /\ trace.before.fillColor = Red
    /\ trace.before.vizMode = "outline"
    /\ ~trace.before.showLabels
    /\ settings.fillColor = Magenta
    /\ settings.vizMode = "both"
    /\ ~settings.showLabels


\* C27: applyPreset(key) with a key that is not in the preset table returns
\* null and leaves every settings field unchanged.
C27_UnknownKeyNull ==
    (trace.op = "applyPreset" /\ trace.key \notin DOMAIN PresetTable) =>
        /\ trace.ret = NullRet
        /\ settings = trace.before

-----------------------------------------------------------------------------
(* Further claims on Detector.detect, checked under SpecDetect.            *)

\* detect returned a result: detections all pass the filters of f, and a
\* mask comes only with mode 'segmentation' in f
ResultFits(f) ==
    /\ \A d \in detections :
          /\ d.score >= f.confidence
          /\ f.personOnly => d.class = "person"
    /\ segmentation.kind # "null" => f.mode = "segmentation"

\* C28 as stated: what detect returns fits the detector's threshold,
\* personOnly flag and mode as they are when it returns, and the threshold
\* is within [0,1] after any setConfidence calls.
C28_FitsCurrentFields ==
    /\ detector.confidence \in 0..10
    /\ trace.op = "detect" => ResultFits(ReadByDetect(detector))

\* C28 amended: what detect returns fits the threshold, personOnly flag and
\* mode the detector held when the object-detection oracle resolved, which
\* is when detect reads them; a result of the early return or of the catch
\* block is empty; the threshold is within [0,1] after any setConfidence
\* calls.
C28_FitsFieldsRead ==
    /\ detector.confidence \in 0..10
    /\ trace.op = "detect" =>
          IF trace.cause = "returned"
          THEN ResultFits(trace.used)
          ELSE detections = {} /\ segmentation.kind = "null"

\* a mask and a detection of score 0.7 were returned after the mode had
\* been set to 'detection' and the threshold raised to 0.8 while
\* segmentPerson was pending
C28_Witness ==
    /\ trace.op = "detect"
    /\ trace.cause = "returned"
    /\ segmentation.kind = "mask"
    /\ detector.mode = "detection"
    /\ detector.confidence = 8
    /\ \E d \in detections : d.score = 7
    /\ trace.used.confidence = 0

-----------------------------------------------------------------------------
(* Claims on failures of loading and starting, checked under Spec.         *)

\* no handler does anything once loading has failed
FailedIsFinal == load = "failed" => UNCHANGED vars

\* C29: when a model fails to load during init, no start or keyboard
\* listener is installed: the app is not running and never starts, no
\* startCamera, detect or render call is made, whatever the user does next.
C29_LoadFailureIsFinal ==
    /\ [](load = "failed" =>
             /\ ~isRunning
             /\ ~detector.isReady
             /\ chains = NoChains
             /\ trace.detects = 0
             /\ trace.op # "frame"
             /\ canvas = BlankCanvas(0, 0)
             /\ ~video.srcObject)
    /\ [][FailedIsFinal]_vars

\* the second model failed to load after the first had loaded
C29_Witness ==
    /\ load = "failed"
    /\ detector.cocoModel
    /\ ~detector.bodyPixModel


\* a startCamera call ends in its catch block: getUserMedia or video.play
\* was rejected
StartFails(i) ==
    /\ chains[i].pc \in {"getUserMedia", "play"}
    /\ chains'[i] = IdleChain

\* what C30 says of such a step
StartFailureStep ==
    \A i \in 1..MaxChains :
        StartFails(i) =>
            /\ ~isRunning'
            /\ LoopChains' = LoopChains
            /\ settings' = settings
            /\ detector' = detector

\* C30: when getUserMedia or video.play fails in startCamera, isRunning is
\* false afterwards, so that a later toggleCamera starts again rather than
\* stops; no loop iteration is started and the renderer settings and the
\* detector are as they were.
C30_StartFailureLeavesStopped == [][StartFailureStep]_vars

=============================================================================
